---- MODULE Spec2Model ----
(***************************************************************************)
(* CSV import and reconciliation of the portfolio monitor's admin page:    *)
(* the transaction upload (AdminTransactions.handleFileUpload) and the     *)
(* dividend upload (DividendUploadDialog.handleFileUpload followed by      *)
(* AdminTransactions.handleDividendUpload), against the hosted store.      *)
(*                                                                         *)
(* Text is modelled as a sequence of one-character strings, so that        *)
(* parsing, formatting and key building are computed character by          *)
(* character, as the code does.                                            *)
(***************************************************************************)
EXTENDS Integers, Sequences, FiniteSets, TLC

(***************************************************************************)
(* Bounds of the model.                                                    *)
(***************************************************************************)
\* Largest number of data rows of an uploaded file.
MaxRows == 2
\* Largest number of import runs started in one behaviour.
MaxRuns == 2

(***************************************************************************)
(* Characters and text.                                                    *)
(***************************************************************************)
Digits == {"0", "1", "2", "3", "4", "5", "6", "7", "8", "9"}

DigitSeq == <<"0", "1", "2", "3", "4", "5", "6", "7", "8", "9">>

UpperLetters == <<"A", "B", "C", "D", "E", "F", "G", "H", "I", "J", "K", "L", "M",
                  "N", "O", "P", "Q", "R", "S", "T", "U", "V", "W", "X", "Y", "Z">>

LowerLetters == <<"a", "b", "c", "d", "e", "f", "g", "h", "i", "j", "k", "l", "m",
                  "n", "o", "p", "q", "r", "s", "t", "u", "v", "w", "x", "y", "z">>

IndexIn(seq, c) == CHOOSE i \in 1..Len(seq) : seq[i] = c

IsIn(seq, c) == \E i \in 1..Len(seq) : seq[i] = c

DigitVal(c) == IndexIn(DigitSeq, c) - 1

\* String.prototype.toLowerCase / toUpperCase, one character at a time.
toLowerCase(s) ==
    [i \in 1..Len(s) |->
        IF IsIn(UpperLetters, s[i]) THEN LowerLetters[IndexIn(UpperLetters, s[i])] ELSE s[i]]

toUpperCase(s) ==
    [i \in 1..Len(s) |->
        IF IsIn(LowerLetters, s[i]) THEN UpperLetters[IndexIn(LowerLetters, s[i])] ELSE s[i]]

IsSpace(c) == c = " "

\* String.prototype.trim.
trim(s) ==
    IF \A i \in 1..Len(s) : IsSpace(s[i])
    THEN <<>>
    ELSE LET first == CHOOSE i \in 1..Len(s) :
                          ~IsSpace(s[i]) /\ \A j \in 1..(i - 1) : IsSpace(s[j])
             last  == CHOOSE i \in 1..Len(s) :
                          ~IsSpace(s[i]) /\ \A j \in (i + 1)..Len(s) : IsSpace(s[j])
         IN  SubSeq(s, first, last)

AllDigits(s) == \A i \in 1..Len(s) : s[i] \in Digits

AllLetters(s) == \A i \in 1..Len(s) : IsIn(LowerLetters, s[i])

RECURSIVE ToInt(_)
\* The value of a sequence of decimal digits.
ToInt(s) ==
    IF s = <<>> THEN 0
    ELSE 10 * ToInt(SubSeq(s, 1, Len(s) - 1)) + DigitVal(s[Len(s)])

RECURSIVE NatToText(_)
\* The decimal digits of a natural number.
NatToText(n) ==
    IF n < 10 THEN <<DigitSeq[n + 1]>>
    ELSE NatToText(n \div 10) \o <<DigitSeq[(n % 10) + 1]>>

\* String.prototype.padStart(width, '0').
padStart(t, width) == [i \in 1..(width - Len(t)) |-> "0"] \o t

\* The digits of n, padded with zeros on the left to `width` characters.
Pad(n, width) == padStart(NatToText(n), width)

RECURSIVE Join(_, _)
\* Array.prototype.join of a sequence of texts.
Join(parts, sep) ==
    IF parts = <<>> THEN <<>>
    ELSE IF Len(parts) = 1 THEN parts[1]
    ELSE parts[1] \o sep \o Join(Tail(parts), sep)

(***************************************************************************)
(* JavaScript values: a string, a Date object, a number (in hundredths),   *)
(* NaN, null and undefined.                                                *)
(***************************************************************************)
Str(s) == [t |-> "string", s |-> s]

Num(v) == [t |-> "number", v |-> v]

NaN == [t |-> "NaN"]

Null == [t |-> "null"]

Undefined == [t |-> "undefined"]

DateObj(y, m, d) == [t |-> "Date", y |-> y, m |-> m, d |-> d]

\* The Date whose time value is NaN ("Invalid Date").
InvalidDate == [t |-> "Date", y |-> 0, m |-> 0, d |-> 0]

\* The day `new Date()` returns; the day of the run, later than every day a file names.
Today == DateObj(2025, 6, 1)

\* Truthiness of a cell of a parsed row: undefined and '' are falsy.
Truthy(v) == v.t = "string" /\ v.s # <<>>

IsLeap(y) == (y % 4 = 0 /\ y % 100 # 0) \/ y % 400 = 0

DaysInMonth(y, m) ==
    IF m = 2 THEN (IF IsLeap(y) THEN 29 ELSE 28)
    ELSE IF m \in {4, 6, 9, 11} THEN 30 ELSE 31

\* /^\d{4}-\d{2}-\d{2}$/
IsoShape(s) ==
    /\ Len(s) = 10
    /\ AllDigits(SubSeq(s, 1, 4)) /\ s[5] = "-"
    /\ AllDigits(SubSeq(s, 6, 7)) /\ s[8] = "-"
    /\ AllDigits(SubSeq(s, 9, 10))

\* /^\d{2}-\d{2}-\d{4}$/
DmyShape(s) ==
    /\ Len(s) = 10
    /\ AllDigits(SubSeq(s, 1, 2)) /\ s[3] = "-"
    /\ AllDigits(SubSeq(s, 4, 5)) /\ s[6] = "-"
    /\ AllDigits(SubSeq(s, 7, 10))

\* The Date of a year, a month and a day read from a date-only ISO text: that day
\* when it is a day of the calendar, Invalid Date when month or day is out of range.
DateOfYmd(y, m, d) ==
    IF m \in 1..12 /\ d \in 1..DaysInMonth(y, m) THEN DateObj(y, m, d) ELSE InvalidDate

\* new Date(text). The texts that reach the constructor in this model and are not a
\* date-only ISO text (empty, or letters only) are rejected by every engine.
NewDate(s) ==
    IF IsoShape(s)
    THEN DateOfYmd(ToInt(SubSeq(s, 1, 4)), ToInt(SubSeq(s, 6, 7)), ToInt(SubSeq(s, 9, 10)))
    ELSE InvalidDate

\* isNaN(date.getTime())
IsInvalidDate(date) == date = InvalidDate

\* YYYY-MM-DD of a valid Date: date.toISOString().split('T')[0].
YmdText(date) == Pad(date.y, 4) \o <<"-">> \o Pad(date.m, 2) \o <<"-">> \o Pad(date.d, 2)

InvalidDateText == <<"I", "n", "v", "a", "l", "i", "d", " ", "D", "a", "t", "e">>

MonthAbbrev == << <<"J", "a", "n">>, <<"F", "e", "b">>, <<"M", "a", "r">>, <<"A", "p", "r">>,
                  <<"M", "a", "y">>, <<"J", "u", "n">>, <<"J", "u", "l">>, <<"A", "u", "g">>,
                  <<"S", "e", "p">>, <<"O", "c", "t">>, <<"N", "o", "v">>, <<"D", "e", "c">> >>

\* Date.prototype.toString: "Www Mmm DD YYYY hh:mm:ss GMT+hhmm (zone)". The weekday
\* name and the time with its zone are kept as one symbol each.
DateToString(date) ==
    IF IsInvalidDate(date) THEN InvalidDateText
    ELSE <<"<weekday>", " ">> \o MonthAbbrev[date.m] \o <<" ">> \o Pad(date.d, 2)
         \o <<" ">> \o Pad(date.y, 4) \o <<" ", "<time and zone>">>

\* The months table of convertDate: month name, month number.
months ==
    << <<<<"j", "a", "n", "u", "a", "r", "y">>, 1>>, <<<<"j", "a", "n">>, 1>>,
       <<<<"f", "e", "b", "r", "u", "a", "r", "y">>, 2>>, <<<<"f", "e", "b">>, 2>>,
       <<<<"m", "a", "r", "c", "h">>, 3>>, <<<<"m", "a", "r">>, 3>>,
       <<<<"a", "p", "r", "i", "l">>, 4>>, <<<<"a", "p", "r">>, 4>>,
       <<<<"m", "a", "y">>, 5>>,
       <<<<"j", "u", "n", "e">>, 6>>, <<<<"j", "u", "n">>, 6>>,
       <<<<"j", "u", "l", "y">>, 7>>, <<<<"j", "u", "l">>, 7>>,
       <<<<"a", "u", "g", "u", "s", "t">>, 8>>, <<<<"a", "u", "g">>, 8>>,
       <<<<"s", "e", "p", "t", "e", "m", "b", "e", "r">>, 9>>, <<<<"s", "e", "p">>, 9>>,
       <<<<"o", "c", "t", "o", "b", "e", "r">>, 10>>, <<<<"o", "c", "t">>, 10>>,
       <<<<"n", "o", "v", "e", "m", "b", "e", "r">>, 11>>, <<<<"n", "o", "v">>, 11>>,
       <<<<"d", "e", "c", "e", "m", "b", "e", "r">>, 12>>, <<<<"d", "e", "c">>, 12>> >>

\* months[monthText]: the month number of a month name, or 0 for undefined.
MonthOf(monthText) ==
    IF \E i \in 1..Len(months) : months[i][1] = monthText
    THEN months[CHOOSE i \in 1..Len(months) : months[i][1] = monthText][2]
    ELSE 0

\* The length of the run of non-space characters a text begins with.
WordLen(s) ==
    IF \E i \in 1..Len(s) : IsSpace(s[i])
    THEN (CHOOSE i \in 1..Len(s) : IsSpace(s[i]) /\ \A j \in 1..(i - 1) : ~IsSpace(s[j])) - 1
    ELSE Len(s)

RECURSIVE Words(_)
\* The maximal runs of non-space characters of a text, in order.
Words(s) ==
    IF s = <<>> THEN <<>>
    ELSE IF IsSpace(s[1]) THEN Words(Tail(s))
    ELSE <<SubSeq(s, 1, WordLen(s))>> \o Words(SubSeq(s, WordLen(s) + 1, Len(s)))

\* dateStr.match(/^(\d{1,2})\s+([a-z]+)\s+(\d{4})$/), from the words w of a trimmed
\* text.
TextMatch(w) ==
    /\ Len(w) = 3
    /\ Len(w[1]) \in 1..2 /\ AllDigits(w[1])
    /\ AllLetters(w[2])
    /\ Len(w[3]) = 4 /\ AllDigits(w[3])

Returned(date) == [threw |-> FALSE, date |-> date]

Threw == [threw |-> TRUE, date |-> InvalidDate]

\* The end of convertDate: native parsing of the text, and the throw when that gives
\* an Invalid Date.
NativeDate(nativeDate) ==
    IF IsInvalidDate(nativeDate) THEN Threw ELSE Returned(nativeDate)

\* convertDate from its text branch on; w are the words of the text.
TextDate(s, w) ==
    IF TextMatch(w) /\ MonthOf(w[2]) # 0
    THEN Returned(NewDate(w[3] \o <<"-">> \o Pad(MonthOf(w[2]), 2) \o <<"-">>
                          \o padStart(w[1], 2)))
    ELSE NativeDate(NewDate(s))

\* convertDate after `dateStr = dateStr.trim().toLowerCase()`.
ConvertedDate(s) ==
    IF IsoShape(s) THEN Returned(NewDate(s))
    ELSE IF DmyShape(s)
    THEN Returned(NewDate(SubSeq(s, 7, 10) \o <<"-">> \o SubSeq(s, 4, 5) \o <<"-">>
                          \o SubSeq(s, 1, 2)))
    ELSE TextDate(s, Words(s))

\* convertDate without `.toLowerCase()`: the patterns see the text as it was typed.
convertDateAsTyped(text) == ConvertedDate(trim(text))

\* convertDate of types/transaction and types/dividend (the two are the same code):
\* the Date it returns, or that it threw.
convertDate(dateStr) == ConvertedDate(toLowerCase(trim(dateStr)))

\* The YYYY-MM-DD text of a Date object, "Invalid Date" when toISOString throws.
FormattedDate(date) == IF IsInvalidDate(date) THEN InvalidDateText ELSE YmdText(date)

\* formatDate(convertDate(date)) inside the try block of formatDate.
FormattedConverted(c) == IF c.threw THEN InvalidDateText ELSE FormattedDate(c.date)

\* What a caller sees when an error leaves a function.
Thrown == <<"<thrown>">>

\* formatDate without its try and catch: the error of convertDate, the RangeError of
\* toISOString and the error thrown for a value that is no Date reach the caller.
formatDateUncaught(date) ==
    IF date.t = "string"
    THEN IF IsoShape(date.s) THEN date.s
         ELSE IF convertDate(date.s).threw \/ IsInvalidDate(convertDate(date.s).date)
         THEN Thrown
         ELSE YmdText(convertDate(date.s).date)
    ELSE IF date.t = "Date" /\ ~IsInvalidDate(date) THEN YmdText(date)
    ELSE Thrown

\* formatDate: the YYYY-MM-DD text of a Date or of a date text, "Invalid Date" when
\* anything in it throws.
formatDate(date) ==
    IF date.t = "string"
    THEN IF IsoShape(date.s) THEN date.s ELSE FormattedConverted(convertDate(date.s))
    ELSE IF date.t = "Date" THEN FormattedDate(date)
    ELSE InvalidDateText

(***************************************************************************)
(* Numbers. A number is kept in hundredths; the texts of the model have at *)
(* most two fraction digits.                                               *)
(***************************************************************************)
\* The longest prefix of s made of digits.
DigitPrefix(s) ==
    LET n == IF AllDigits(s) THEN Len(s)
             ELSE (CHOOSE i \in 1..Len(s) :
                       s[i] \notin Digits /\ \A j \in 1..(i - 1) : s[j] \in Digits) - 1
    IN  SubSeq(s, 1, n)

\* The hundredths named by the fraction digits f (at most two are read).
Hundredths(f) ==
    IF f = <<>> THEN 0
    ELSE IF Len(f) = 1 THEN 10 * DigitVal(f[1])
    ELSE 10 * DigitVal(f[1]) + DigitVal(f[2])

\* The fraction digits parseFloat reads from what follows the whole part.
FractionDigits(rest) ==
    IF rest # <<>> /\ rest[1] = "." THEN DigitPrefix(Tail(rest)) ELSE <<>>

\* The number parseFloat returns for a sign, whole digits and fraction digits.
ParsedNumber(neg, whole, frac) ==
    IF whole = <<>> /\ frac = <<>> THEN NaN
    ELSE IF neg THEN Num(0 - (100 * ToInt(whole) + Hundredths(frac)))
    ELSE Num(100 * ToInt(whole) + Hundredths(frac))

\* parseFloat of the text after its sign.
ParseUnsigned(neg, s1) ==
    ParsedNumber(neg, DigitPrefix(s1),
                 FractionDigits(SubSeq(s1, Len(DigitPrefix(s1)) + 1, Len(s1))))

\* parseFloat of a text without leading blanks.
ParseSigned(s0) ==
    IF s0 # <<>> /\ s0[1] \in {"-", "+"} THEN ParseUnsigned(s0[1] = "-", Tail(s0))
    ELSE ParseUnsigned(FALSE, s0)

\* parseFloat(text): skips leading blanks, reads an optional sign, digits and a
\* fraction, and stops at the first character that fits no number; NaN when no
\* digit was read.
parseFloat(text) == ParseSigned(trim(text))

\* isNaN(x) of a parsed number.
isNaN(x) == x.t = "NaN"

\* The fraction part of a number's text, from its hundredths f.
FractionText(f) ==
    IF f = 0 THEN <<>>
    ELSE IF f % 10 = 0 THEN <<".">> \o NatToText(f \div 10)
    ELSE <<".">> \o Pad(f, 2)

\* Number to text, as in a template literal: 15025 hundredths is "150.25", 20050 is
\* "200.5", 10000 is "100".
NumberText(v) ==
    IF v < 0 THEN <<"-">> \o NatToText((0 - v) \div 100) \o FractionText((0 - v) % 100)
    ELSE NatToText(v \div 100) \o FractionText(v % 100)

\* `${x}` of a value: its text in a template literal.
TemplateText(x) ==
    CASE x.t = "string" -> x.s
      [] x.t = "number" -> NumberText(x.v)
      [] x.t = "NaN" -> <<"N", "a", "N">>
      [] x.t = "null" -> <<"n", "u", "l", "l">>
      [] x.t = "undefined" -> <<"u", "n", "d", "e", "f", "i", "n", "e", "d">>
      [] OTHER -> DateToString(x)

\* The text Array.prototype.join gives an element: null and undefined are empty.
JoinText(x) == IF x.t \in {"null", "undefined"} THEN <<>> ELSE TemplateText(x)

\* What JSON.stringify sends for a value, as the store returns it in a later
\* select: a Date becomes its ISO text (kept as its day), an invalid Date and NaN
\* become null.
Stored(x) ==
    CASE x.t = "Date" -> (IF IsInvalidDate(x) THEN Null ELSE Str(YmdText(x)))
      [] x.t = "NaN" -> Null
      [] x.t = "undefined" -> Null
      [] OTHER -> x

(***************************************************************************)
(* The cells of the uploaded files of the model.                           *)
(***************************************************************************)
txDividends == <<"D", "i", "v", "i", "d", "e", "n", "d", "s">>

txBuy == <<"B", "u", "y">>

txSell == <<"S", "e", "l", "l">>

txUSD == <<"U", "S", "D">>

txEUR == <<"E", "U", "R">>

txAcc1 == <<"A", "C", "C", "1">>

txAcc2 == <<"A", "C", "C", "2">>

txAAPL == <<"A", "A", "P", "L">>

txAaplLower == <<"a", "a", "p", "l">>

txGOOGL == <<"G", "O", "O", "G", "L">>

txJan15 == <<"2", "0", "2", "4", "-", "0", "1", "-", "1", "5">>

txJan15Dmy == <<"1", "5", "-", "0", "1", "-", "2", "0", "2", "4">>

txFeb20 == <<"2", "0", "2", "4", "-", "0", "2", "-", "2", "0">>

txNoSuchDay == <<"2", "0", "2", "4", "-", "1", "3", "-", "4", "5">>

txGarbage == <<"a", "b", "c">>

tx150 == <<"1", "5", "0", ".", "2", "5">>

tx200 == <<"2", "0", "0", ".", "5", "0">>

txMinus5 == <<"-", "5", ".", "0", "0">>

tx100 == <<"1", "0", "0">>

tx999 == <<"9", ".", "9", "9">>

\* A parsed dividend row: the cell under each header name (Papa.parse, header: true).
DividendRow(type, currency, account, symbol, date, amount) ==
    [TransactionType |-> type, Currency |-> currency, Account |-> account,
     Symbol |-> symbol, Date |-> date, Amount |-> amount]

\* A parsed transaction row.
TransactionRow(type, currency, account, symbol, date, quantity, price, commission, rate) ==
    [TransactionType |-> type, Currency |-> currency, Account |-> account,
     Symbol |-> symbol, Date |-> date, Quantity |-> quantity, TradePrice |-> price,
     Commission |-> commission, ExchangeRate |-> rate]

\* The two rows of the sample file the dialog shows.
DivA == DividendRow(Str(txDividends), Str(txUSD), Str(txAcc1), Str(txAAPL), Str(txJan15), Str(tx150))

DivB == DividendRow(Str(txDividends), Str(txEUR), Str(txAcc2), Str(txGOOGL), Str(txFeb20), Str(tx200))

\* DivA written with a day-month-year date and a lower-case symbol.
DivA2 == DividendRow(Str(txDividends), Str(txUSD), Str(txAcc1), Str(txAaplLower), Str(txJan15Dmy), Str(tx150))

DivNegative == DividendRow(Str(txDividends), Str(txUSD), Str(txAcc1), Str(txAAPL), Str(txJan15), Str(txMinus5))

DivBadAmount == DividendRow(Str(txDividends), Str(txUSD), Str(txAcc1), Str(txAAPL), Str(txJan15), Str(txGarbage))

DivBadType == DividendRow(Str(txBuy), Str(txUSD), Str(txAcc1), Str(txAAPL), Str(txJan15), Str(tx150))

DivBadDate == DividendRow(Str(txDividends), Str(txUSD), Str(txAcc1), Str(txAAPL), Str(txGarbage), Str(tx150))

DivNoSuchDay == DividendRow(Str(txDividends), Str(txUSD), Str(txAcc1), Str(txAAPL), Str(txNoSuchDay), Str(tx150))

DivNoAccount == DividendRow(Str(txDividends), Str(txUSD), Undefined, Str(txAAPL), Str(txJan15), Str(tx150))

\* DivB with the Currency cell left blank.
DivNoCurrency == DividendRow(Str(txDividends), Str(<<>>), Str(txAcc2), Str(txGOOGL), Str(txFeb20), Str(tx200))

\* A line that ends before its Amount field, with the Currency cell left blank.
DivShort == DividendRow(Str(txDividends), Str(<<>>), Str(txAcc1), Str(txAAPL), Str(txJan15), Undefined)

DividendRows ==
    {DivA, DivB, DivA2, DivNegative, DivBadAmount, DivBadType, DivBadDate, DivNoSuchDay,
     DivNoAccount, DivNoCurrency, DivShort}

\* The row of the sample transaction file.
TrxA == TransactionRow(Str(txBuy), Str(txUSD), Str(txAcc1), Str(txAAPL), Str(txJan15),
                       Str(tx100), Str(tx150), Str(tx999), Str(tx100))

\* Another transaction, with the optional cells left blank.
TrxB == TransactionRow(Str(txBuy), Str(<<>>), Str(txAcc2), Str(txGOOGL), Str(txFeb20),
                       Str(tx100), Str(tx200), Str(<<>>), Str(<<>>))

TrxNoDate == TransactionRow(Str(txBuy), Str(txUSD), Str(txAcc1), Str(txAAPL), Str(<<>>),
                            Str(tx100), Str(tx150), Str(tx999), Str(tx100))

TrxNegative == TransactionRow(Str(txBuy), Str(txUSD), Str(txAcc1), Str(txAAPL), Str(txJan15),
                              Str(txMinus5), Str(tx150), Str(tx999), Str(tx100))

TrxNoAccount == TransactionRow(Str(txBuy), Str(txUSD), Undefined, Str(<<>>), Str(txJan15),
                               Str(tx100), Str(txGarbage), Str(tx999), Str(tx100))

\* TrxA with a date no pattern and no parser accepts.
TrxBadDate == TransactionRow(Str(txBuy), Str(txUSD), Str(txAcc1), Str(txAAPL), Str(txGarbage),
                             Str(tx100), Str(tx150), Str(tx999), Str(tx100))

\* TrxA with its symbol in lower case.
TrxLower == TransactionRow(Str(txBuy), Str(txUSD), Str(txAcc1), Str(txAaplLower), Str(txJan15),
                           Str(tx100), Str(tx150), Str(tx999), Str(tx100))

\* TrxA with the type tag of the other record kind.
TrxBadType == TransactionRow(Str(txDividends), Str(txUSD), Str(txAcc1), Str(txAAPL), Str(txJan15),
                             Str(tx100), Str(tx150), Str(tx999), Str(tx100))

TransactionRows ==
    {TrxA, TrxB, TrxNoDate, TrxNegative, TrxNoAccount, TrxBadDate, TrxLower, TrxBadType}

\* Two dividends of account U1-BRK, symbol B, and of account U1, symbol BRK-B, on
\* the same day with the same amount.
DivHyphenA == DividendRow(Str(txDividends), Str(txUSD), Str(<<"U", "1", "-", "B", "R", "K">>),
                          Str(<<"B">>), Str(txJan15), Str(tx150))

DivHyphenB == DividendRow(Str(txDividends), Str(txUSD), Str(<<"U", "1">>),
                          Str(<<"B", "R", "K", "-", "B">>), Str(txJan15), Str(tx150))

\* Two transactions of account U1|Buy, symbol X, and of account U1, symbol Buy|X, on
\* the same day with the same quantity and price.
TrxBarA == TransactionRow(Str(txBuy), Str(txUSD), Str(<<"U", "1", "|">> \o txBuy), Str(<<"X">>),
                          Str(txJan15), Str(tx100), Str(tx150), Str(tx999), Str(tx100))

TrxBarB == TransactionRow(Str(txBuy), Str(txUSD), Str(<<"U", "1">>), Str(txBuy \o <<"|", "X">>),
                          Str(txJan15), Str(tx100), Str(tx150), Str(tx999), Str(tx100))

\* The files of at most MaxRows data rows over a set of rows.
FilesOver(rows) == UNION {[1..n -> rows] : n \in 0..MaxRows}

(***************************************************************************)
(* The destination store: one table per record kind, an opaque service.    *)
(***************************************************************************)
\* An identifier the store assigned.
StoreId(n) == [temp |-> FALSE, n |-> n]

\* The identifier `temp_${Date.now()}_${index}` of a record not yet persisted.
TempId(index) == [temp |-> TRUE, n |-> index]

\* The row the store keeps for an inserted object: every field as JSON carries it,
\* under the id the object brings or, when it brings none, under the n-th
\* identifier of the store's.
StoredRecord(rec, n) ==
    [f \in (DOMAIN rec) \cup {"id"} |->
        IF f # "id" THEN Stored(rec[f])
        ELSE IF "id" \in DOMAIN rec THEN rec.id ELSE StoreId(n)]

\* const { id, ...rest } = record: the object without its id.
WithoutId(rec) == [f \in (DOMAIN rec) \ {"id"} |-> rec[f]]

\* records.map(({ id, ...d }) => d)
WithoutIds(recs) == [i \in 1..Len(recs) |-> WithoutId(recs[i])]

\* supabase.from(table).insert(recs): the table after the batched insert, when the
\* store has assigned `assigned` identifiers before.
InsertInto(tbl, recs, assigned) ==
    tbl \o [i \in 1..Len(recs) |-> StoredRecord(recs[i], assigned + i)]

(***************************************************************************)
(* Transaction upload: AdminTransactions.handleFileUpload.                 *)
(***************************************************************************)
\* The catch of the date conversion: `new Date(row['Date'])` when convertDate threw.
TransactionDate(row, c) == IF c.threw THEN NewDate(row.Date.s) ELSE c.date

\* The transaction object built from a parsed row (the map over parsedData).
TransactionOf(row) ==
    [transactionType |-> IF Truthy(row.TransactionType) THEN row.TransactionType ELSE Str(txBuy),
     currency |-> IF Truthy(row.Currency) THEN row.Currency ELSE Str(txUSD),
     account |-> IF Truthy(row.Account) THEN row.Account ELSE Str(<<>>),
     symbol |-> IF Truthy(row.Symbol) THEN row.Symbol ELSE Str(<<>>),
     date |-> IF Truthy(row.Date) THEN TransactionDate(row, convertDate(row.Date.s)) ELSE Today,
     quantity |-> IF Truthy(row.Quantity) THEN parseFloat(row.Quantity.s) ELSE Num(0),
     tradePrice |-> IF Truthy(row.TradePrice) THEN parseFloat(row.TradePrice.s) ELSE Num(0),
     commission |-> IF Truthy(row.Commission) THEN parseFloat(row.Commission.s) ELSE Num(0),
     exchangeRate |-> IF Truthy(row.ExchangeRate) THEN parseFloat(row.ExchangeRate.s) ELSE Num(100)]

\* The key of handleFileUpload, the same text for stored and for new transactions:
\* `${formatDate(t.date)}|${t.account}|${t.transactionType}|${t.symbol}|${t.quantity}|${t.tradePrice}`
TransactionKey(t) ==
    Join(<<formatDate(t.date), TemplateText(t.account), TemplateText(t.transactionType),
           TemplateText(t.symbol), TemplateText(t.quantity), TemplateText(t.tradePrice)>>,
         <<"|">>)

\* TransactionOf of every row of the model, computed once.
RowTransactions == [row \in TransactionRows |-> TransactionOf(row)]

\* The transaction object of a parsed row, read from RowTransactions when the row is
\* one of the model's.
MappedRow(row) == IF row \in TransactionRows THEN RowTransactions[row] ELSE TransactionOf(row)

\* parsedData.map(row => ...)
newTransactions(parsedData) == [i \in 1..Len(parsedData) |-> MappedRow(parsedData[i])]

\* The keys of the transactions the select returned.
TransactionKeys(existingTransactions) ==
    {TransactionKey(existingTransactions[i]) : i \in 1..Len(existingTransactions)}

IsNewTransaction(t, existingKeys) == TransactionKey(t) \notin existingKeys

\* newTransactions.filter(t => !existingKeys.has(key))
uniqueNewTransactions(parsedData, existingTransactions) ==
    LET existingKeys == TransactionKeys(existingTransactions)
    IN  SelectSeq(newTransactions(parsedData), LAMBDA t : IsNewTransaction(t, existingKeys))

(***************************************************************************)
(* Dividend upload, dialog part: DividendUploadDialog.handleFileUpload.    *)
(***************************************************************************)
\* The header names, written without their blanks ('Transaction Type').
requiredHeaders == <<"TransactionType", "Currency", "Account", "Symbol", "Date", "Amount">>

\* requiredHeaders.filter(header => !row[header])
missingHeaders(row) == SelectSeq(requiredHeaders, LAMBDA header : ~Truthy(row[header]))

\* What the row block of the dialog throws once the headers and the type passed, from
\* the converted date and the parsed amount; "" when it throws nothing. The last case
\* is the RangeError of toISOString on an Invalid Date, thrown where the duplicate
\* key is built.
ValueError(transactionDate, amount) ==
    IF transactionDate.threw THEN "Invalid date format"
    ELSE IF isNaN(amount) THEN "Invalid amount"
    ELSE IF amount.v < 0 THEN "Invalid amount"
    ELSE IF IsInvalidDate(transactionDate.date) THEN "Invalid time value"
    ELSE ""

\* What the row block of the dialog throws for a row, "" when it throws nothing.
RowError(row) ==
    IF missingHeaders(row) # <<>> THEN "Missing required headers"
    ELSE IF row.TransactionType.s # txDividends THEN "Invalid transaction type"
    ELSE ValueError(convertDate(row.Date.s), parseFloat(row.Amount.s))

\* The dividend object the dialog creates from a row that passed its checks; index
\* is the row's index in results.data, from 0.
DividendOf(row, index) ==
    [id |-> TempId(index),
     transactionType |-> row.TransactionType,
     currency |-> IF Truthy(row.Currency) THEN row.Currency ELSE Str(txUSD),
     account |-> row.Account,
     symbol |-> Str(toUpperCase(row.Symbol.s)),
     date |-> convertDate(row.Date.s).date,
     amount |-> parseFloat(row.Amount.s)]

\* `${dividend.account}-${dividend.symbol}-${dividend.date.toISOString().split('T')[0]}-${dividend.amount}`
duplicateKey(dividend) ==
    Join(<<TemplateText(dividend.account), TemplateText(dividend.symbol),
           YmdText(dividend.date), TemplateText(dividend.amount)>>, <<"-">>)

\* RowError and DividendOf of every row of the model, computed once.
RowErrors == [row \in DividendRows |-> RowError(row)]

RowDividends ==
    [row \in {r \in DividendRows : RowErrors[r] = ""} |-> DividendOf(row, 0)]

\* What the block of a row throws, read from RowErrors when the row is one of the
\* model's.
ThrownBy(row) == IF row \in DividendRows THEN RowErrors[row] ELSE RowError(row)

\* The dividend of a row that throws nothing, read from RowDividends when the row is
\* one of the model's.
CreatedFrom(row) == IF row \in DividendRows THEN RowDividends[row] ELSE DividendOf(row, 0)

\* The message of the Error the block of a row throws; index is the row's index in
\* results.data, from 0. The fixed words of each template are kept as one symbol.
RowMessage(row, index, thrown) ==
    CASE thrown = "Missing required headers" ->
             <<"Missing required headers: ">>
             \o Join([i \in 1..Len(missingHeaders(row)) |-> <<missingHeaders(row)[i]>>],
                     <<", ">>)
      [] thrown = "Invalid transaction type" ->
             <<"Invalid transaction type: ">> \o row.TransactionType.s
             \o <<". Expected 'Dividends'">>
      [] thrown = "Invalid date format" ->
             <<"Invalid date format in row ">> \o NatToText(index + 1) \o <<": ">>
             \o row.Date.s
      [] thrown = "Invalid amount" ->
             <<"Invalid amount in row ">> \o NatToText(index + 1) \o <<": ">>
             \o row.Amount.s
      [] OTHER -> <<thrown>>

\* The catch of the row block: `Row ${index + 1}: ${rowError.message}`.
RowErrorMessage(row, index) ==
    <<"Row ">> \o NatToText(index + 1) \o <<": ">> \o RowMessage(row, index, ThrownBy(row))

\* setErrorMessage('No valid dividends found in the CSV file.')
NoValidDividends == <<"No valid dividends found in the CSV file.">>

\* The first of a set of row numbers, 0 when there is none.
FirstOf(failed) ==
    IF failed = {} THEN 0 ELSE CHOOSE i \in failed : \A j \in failed : i <= j

\* The first row of the file whose block throws, 0 when none does.
FirstFailedRow(data) == FirstOf({i \in 1..Len(data) : ThrownBy(data[i]) # ""})

\* The end of a turn of the dialog's forEach, from the duplicate key of the row's
\* dividend: the dividend is kept unless its key was seen, and then
\* setDuplicateCount adds one.
DialogKeep(before, dividend, key) ==
    IF key \in before.duplicates
    THEN [before EXCEPT !.skipped = @ + 1]
    ELSE [dividends |-> Append(before.dividends, dividend),
          duplicates |-> before.duplicates \cup {key},
          skipped |-> before.skipped]

\* One turn of the dialog's forEach, for a row that does not throw.
DialogStep(before, dividend) == DialogKeep(before, dividend, duplicateKey(dividend))

RECURSIVE DialogLoop(_, _, _, _)
\* The dialog's forEach from row i to row n, none of which throws, from the dividends
\* kept, the keys seen and the duplicates counted so far.
DialogLoop(data, i, n, before) ==
    IF i > n THEN before
    ELSE DialogLoop(data, i + 1, n,
                    DialogStep(before, [CreatedFrom(data[i]) EXCEPT !.id = TempId(i - 1)]))

\* The rows the dialog's loop gets through: all of them, or those before the first
\* row that throws.
RowsDone(data, failedRow) == IF failedRow = 0 THEN Len(data) ELSE failedRow - 1

\* The dialog's loop over a parsed file, up to the row that throws.
DialogResult(data, failedRow) ==
    DialogLoop(data, 1, RowsDone(data, failedRow),
               [dividends |-> <<>>, duplicates |-> {}, skipped |-> 0])

\* The dialog's loop over a parsed file.
DialogOutcome(file) == DialogResult(file, FirstFailedRow(file))

(***************************************************************************)
(* Dividend upload, page part: AdminTransactions.handleDividendUpload.     *)
(***************************************************************************)
\* [d.date, d.account, d.transactionType, d.symbol, d.amount].join('|')
getDividendKey(d) ==
    Join(<<JoinText(d.date), JoinText(d.account), JoinText(d.transactionType),
           JoinText(d.symbol), JoinText(d.amount)>>, <<"|">>)

DividendKeys(dividends) == {getDividendKey(dividends[i]) : i \in 1..Len(dividends)}

\* The body of the forEach of handleDividendUpload, from the dividend's key.
UploadKeep(before, dividend, key) ==
    IF key \in before.existingKeys
    THEN [before EXCEPT !.duplicates = @ + 1]
    ELSE [existingKeys |-> before.existingKeys \cup {key},
          newDividends |-> Append(before.newDividends, dividend),
          duplicates |-> before.duplicates]

\* One turn of the forEach of handleDividendUpload.
UploadStep(before, dividend) == UploadKeep(before, dividend, getDividendKey(dividend))

RECURSIVE UploadLoop(_, _, _)
\* The forEach of handleDividendUpload from the i-th uploaded dividend on.
UploadLoop(uploadedDividends, i, before) ==
    IF i > Len(uploadedDividends) THEN before
    ELSE UploadLoop(uploadedDividends, i + 1, UploadStep(before, uploadedDividends[i]))

\* handleDividendUpload before its insert: the new dividends and the duplicates
\* counted against the keys of the page's dividends.
UploadResult(uploadedDividends, dividends) ==
    UploadLoop(uploadedDividends, 1,
               [existingKeys |-> DividendKeys(dividends), newDividends |-> <<>>,
                duplicates |-> 0])

\* The parsed files of the model.
TransactionFiles == FilesOver(TransactionRows)

DividendFiles == FilesOver(DividendRows)

(***************************************************************************)
(* Export: AdminTransactions.handleExport and handleDividendExport.        *)
(***************************************************************************)
\* A value as Papa.unparse writes it and Papa.parse reads it back: the text of a
\* string or a number, and the empty text for null and undefined.
Cell(v) == Str(JoinText(v))

\* The rows of the file handleExport downloads, as the upload parses them.
handleExport(transactions) ==
    [i \in 1..Len(transactions) |->
        TransactionRow(Cell(transactions[i].transactionType), Cell(transactions[i].currency),
                       Cell(transactions[i].account), Cell(transactions[i].symbol),
                       Cell(transactions[i].date), Cell(transactions[i].quantity),
                       Cell(transactions[i].tradePrice), Cell(transactions[i].commission),
                       Cell(transactions[i].exchangeRate))]

\* The rows of the file handleDividendExport downloads, as the dialog parses them.
handleDividendExport(dividends) ==
    [i \in 1..Len(dividends) |->
        DividendRow(Cell(dividends[i].transactionType), Cell(dividends[i].currency),
                    Cell(dividends[i].account), Cell(dividends[i].symbol),
                    Str(formatDate(dividends[i].date)), Cell(dividends[i].amount))]

(***************************************************************************)
(* The encodings of a calendar date that convertDate is given.             *)
(***************************************************************************)
\* The years of the calendar dates that are converted.
MinYear == 2024

MaxYear == 2025

MonthNames ==
    << <<"J", "a", "n", "u", "a", "r", "y">>, <<"F", "e", "b", "r", "u", "a", "r", "y">>,
       <<"M", "a", "r", "c", "h">>, <<"A", "p", "r", "i", "l">>, <<"M", "a", "y">>,
       <<"J", "u", "n", "e">>, <<"J", "u", "l", "y">>, <<"A", "u", "g", "u", "s", "t">>,
       <<"S", "e", "p", "t", "e", "m", "b", "e", "r">>, <<"O", "c", "t", "o", "b", "e", "r">>,
       <<"N", "o", "v", "e", "m", "b", "e", "r">>, <<"D", "e", "c", "e", "m", "b", "e", "r">> >>

\* The days of the calendar in those years.
CalendarDates ==
    {date \in [t : {"Date"}, y : MinYear..MaxYear, m : 1..12, d : 1..31] :
         date.d <= DaysInMonth(date.y, date.m)}

\* DD-MM-YYYY of a date.
DmyText(date) == Pad(date.d, 2) \o <<"-">> \o Pad(date.m, 2) \o <<"-">> \o Pad(date.y, 4)

\* A month name in one of three letter cases.
InCase(name, case) ==
    CASE case = "lower" -> toLowerCase(name)
      [] case = "upper" -> toUpperCase(name)
      [] OTHER -> name

\* 'D(D) MonthName YYYY' of a date: the day with or without its leading zero, the
\* month name in full or cut to three letters, in a letter case.
NamedText(date, padded, short, case) ==
    (IF padded THEN Pad(date.d, 2) ELSE NatToText(date.d)) \o <<" ">>
    \o InCase(IF short THEN SubSeq(MonthNames[date.m], 1, 3) ELSE MonthNames[date.m], case)
    \o <<" ">> \o Pad(date.y, 4)

\* The encodings of a date without surrounding whitespace.
PlainEncodings(date) ==
    {YmdText(date), DmyText(date)}
    \cup {NamedText(date, padded, short, case) :
              padded \in BOOLEAN, short \in BOOLEAN, case \in {"title", "lower", "upper"}}

\* The encodings of a date, each also with whitespace around it.
Encodings(date) ==
    PlainEncodings(date) \cup {<<" ">> \o text \o <<" ", " ">> : text \in PlainEncodings(date)}

(***************************************************************************)
(* The admin page and the store.                                           *)
(***************************************************************************)
VARIABLES
    activeTab,    \* the tab the admin works in; each tab offers the upload of its kind
    table,        \* the store's table of that kind, in insertion order
    records,      \* the page's list of that kind (the state `transactions` or `dividends`)
    logs,         \* the page's upload log of that kind, newest first
    logged,       \* the number of entries the page has added to that log
    runs,         \* the import runs: the position and the locals of each handler call
    started,      \* the number of import runs started
    duplicateCount, \* the state duplicateCount of the dividend upload dialog
    editing,      \* the state editingTransaction or editingDividend: the record in the edit dialog
    op,           \* the last save or delete of the page: its request and how it ended
    others,       \* the number of records other sessions have written to the table
    issued,       \* the number of identifiers the store has assigned in that table
    calendarDate, \* the calendar date a text given to convertDate was written for
    dateStr,      \* the argument of a call of convertDate
    converted,    \* what the call returned or threw
    dateArg,      \* the argument of a call of formatDate
    formatted,    \* what the call returned
    reformatted,  \* what formatDate returned for that result
    assignments,  \* the store's table advisor_client_assignments
    advisorCall,  \* the call of AdvisorService.updateAdvisor: its position and arguments
    mappings,     \* the store's table symbol_mappings, in insertion order
    mappingCalls, \* the calls of createMapping and updateMapping: position and form data
    rowIds,       \* the ids of the page's list handed to a table component before filtering
    displayed,    \* the ids of the rows the table component displays (its list prop)
    selected,     \* the table component's state selectedTransactions / selectedDividends
    passed        \* the ids the table component last passed to onDelete

vars == <<activeTab, table, records, logs, logged, runs, started, duplicateCount, editing, op,
          others, issued, calendarDate, dateStr, converted, dateArg, formatted, reformatted,
          assignments, advisorCall, mappings, mappingCalls, rowIds, displayed, selected,
          passed>>

\* The variables of a call of convertDate.
dateVars == <<calendarDate, dateStr, converted>>

\* The variables of a call of formatDate.
formatVars == <<dateArg, formatted, reformatted>>

\* The variables of the edit dialog and of the page's save and delete handlers.
manualVars == <<editing, op>>

\* The variables of the advisor service.
advisorVars == <<assignments, advisorCall>>

\* The variables of the symbol-mapping page.
mappingVars == <<mappings, mappingCalls>>

\* The variables of a table component.
selectionVars == <<rowIds, displayed, selected, passed>>

\* What the transactions page does not touch: the other pages and the date functions.
elsewhere == <<dateVars, formatVars, advisorVars, mappingVars, selectionVars>>

\* supabase.from(table).insert(recs) on the table of the tab.
InsertMany(tbl, recs) == InsertInto(tbl, recs, issued)

RunIds == 1..MaxRuns

\* The records other sessions write in one behaviour, at most.
MaxOtherWrites == 1

\* prev.slice(0, 4) in setUploadLogs and prev.slice(0, 9) in setDividendUploadLogs.
KeptUploadLogs == 4

KeptDividendUploadLogs == 9

NoLog == [logged |-> FALSE, new |-> 0, total |-> 0, duplicates |-> 0]

LogEntry(new, total, duplicates) ==
    [logged |-> TRUE, new |-> new, total |-> total, duplicates |-> duplicates]

\* [entry, ...prev]: the new entry put before a log of which nothing is dropped.
AddLogKeepingAll(prev, entry, kept) == <<entry>> \o prev

\* [entry, ...prev.slice(0, kept)]
AddLog(prev, entry, kept) ==
    <<entry>> \o SubSeq(prev, 1, IF Len(prev) < kept THEN Len(prev) ELSE kept)

\* A handler call that has not begun. pre and list are the table and the page's list
\* when the run began, calls the requests the run has sent to the store; dialog,
\* errorMessage, skipped and processed are uploadStatus and errorMessage, and what
\* the run added to duplicateCount and set processedCount to, in the dividend dialog.
IdleRun ==
    [pc |-> "idle", file |-> <<>>, pre |-> <<>>, list |-> <<>>, calls |-> <<>>,
     toInsert |-> <<>>, duplicates |-> 0,
     persisted |-> <<>>, log |-> NoLog, alert |-> "", inserts |-> 0, failedRow |-> 0,
     dialog |-> "idle", errorMessage |-> <<>>, skipped |-> 0, processed |-> 0]

\* A finished run whose messages were dismissed when a later upload began.
ClosedRun == [IdleRun EXCEPT !.pc = "closed"]

InFlight(r) == runs[r].pc \in {"insert", "refresh"}

\* The runs after run r took a step to `next`; the finished runs are dismissed when
\* a new one begins.
Begun(r, next) ==
    [q \in DOMAIN runs |-> IF q = r THEN next
                      ELSE IF runs[q].pc = "done" THEN ClosedRun ELSE runs[q]]

\* Run r may begin: it is the next one, and, unless uploads may overlap, no other
\* run is waiting for the store.
MayBegin(r, overlap) ==
    /\ r = started + 1
    /\ runs[r].pc = "idle"
    /\ overlap \/ \A q \in DOMAIN runs : ~InFlight(q)

\* What convertDate has not been called to give.
Pending == [threw |-> FALSE, date |-> Null]

\* No save or delete of the page has been called. An operation is kept with its
\* number, the request it sent (insert, update or delete), whether the store served
\* it, the object sent and the id or ids the request named, the page's list before
\* and after it, and the number of rows of the table before and after it.
NoOp == [n |-> 0, kind |-> "none", ok |-> TRUE, sent |-> Null, ids |-> {},
         before |-> <<>>, after |-> <<>>, rows |-> <<0, 0>>]

\* What formatDate has not been called to give.
NotCalled == <<"<not called>">>

\* No call of updateAdvisor has begun.
IdleAdvisorCall == [pc |-> "idle", advisorId |-> "", clients |-> {}, before |-> {}]

\* A call of createMapping or updateMapping that has not begun.
IdleMappingCall == [pc |-> "idle", kind |-> "", symbol |-> "", id |-> 0]

\* onDelete of a table has not been called. A call is kept with the ids it was
\* given, the ids the table displayed then, and whether 'Delete Selected' made it.
NotDeleted == [ids |-> {}, displayed |-> {}, bulk |-> FALSE]

\* The page after it loaded the lists of an empty store.
InitPage ==
    /\ table = <<>>
    /\ records = <<>>
    /\ logs = <<>>
    /\ logged = 0
    /\ started = 0
    /\ duplicateCount = 0
    /\ editing = Null
    /\ op = NoOp
    /\ others = 0
    /\ issued = 0

\* No text is given to convertDate.
NoDateCall ==
    /\ calendarDate = InvalidDate
    /\ dateStr = <<>>
    /\ converted = Pending

\* Nothing is given to formatDate.
NoFormatCall ==
    /\ dateArg = Null
    /\ formatted = NotCalled
    /\ reformatted = NotCalled

\* The advisor page is not open.
NoAdvisorPage ==
    /\ assignments = {}
    /\ advisorCall = IdleAdvisorCall

\* The symbol-mapping page is not open.
NoMappingPage ==
    /\ mappings = <<>>
    /\ mappingCalls = <<>>

\* No table component is looked at.
NoSelection ==
    /\ rowIds = {}
    /\ displayed = {}
    /\ selected = {}
    /\ passed = NotDeleted

\* The transactions page alone.
OnlyPage == NoDateCall /\ NoFormatCall /\ NoAdvisorPage /\ NoMappingPage /\ NoSelection

Init ==
    /\ activeTab \in {"transactions", "dividends"}
    /\ InitPage
    /\ runs = [r \in RunIds |-> IdleRun]
    /\ OnlyPage

\* A run with its file, as it begins.
NewRun(file) == [IdleRun EXCEPT !.file = file, !.pre = table, !.list = records]

\* handleFileUpload without `if (parsedData.length === 0)`: a file without data rows
\* goes on to the select and the filter.
FileUploadRunNoEmptyCheck(run0, fetchOk, unique) ==
    IF ~fetchOk
    THEN [run0 EXCEPT !.pc = "done", !.calls = <<"select">>,
                      !.alert = "Failed to process CSV file"]
    ELSE IF Len(unique) = 0
    THEN [run0 EXCEPT !.pc = "done", !.calls = <<"select">>,
                      !.duplicates = Len(run0.file),
                      !.alert = "All transactions in this file are duplicates"]
    ELSE [run0 EXCEPT !.pc = "insert", !.calls = <<"select">>,
                      !.duplicates = Len(run0.file) - Len(unique),
                      !.toInsert = unique]

\* The run of handleFileUpload when it reaches its insert or returns before it, from
\* the run with its file, the outcome of the select and the transactions the filter
\* kept.
FileUploadRun(run0, fetchOk, unique) ==
    IF Len(run0.file) = 0
    THEN [run0 EXCEPT !.pc = "done", !.alert = "No data found in CSV file"]
    ELSE IF ~fetchOk
    THEN [run0 EXCEPT !.pc = "done", !.calls = <<"select">>,
                      !.alert = "Failed to process CSV file"]
    ELSE IF Len(unique) = 0
    THEN [run0 EXCEPT !.pc = "done", !.calls = <<"select">>,
                      !.duplicates = Len(run0.file),
                      !.alert = "All transactions in this file are duplicates"]
    ELSE [run0 EXCEPT !.pc = "insert", !.calls = <<"select">>,
                      !.duplicates = Len(run0.file) - Len(unique),
                      !.toInsert = unique]

\* handleFileUpload, from the parse to the insert request: the empty-file return, the
\* select of the existing transactions (which may fail), the keys, the filter and the
\* all-duplicates return.
FileUploadBegin(r, file, fetchOk, overlap) ==
    /\ activeTab = "transactions"
    /\ MayBegin(r, overlap)
    /\ runs' = Begun(r, FileUploadRun(NewRun(file), fetchOk,
                                      uniqueNewTransactions(file, table)))
    /\ started' = started + 1
    /\ UNCHANGED <<activeTab, table, records, logs, logged, duplicateCount, others, issued,
                   manualVars, elsewhere>>

\* The insert of handleFileUpload without `if (error) throw error`: the handler goes
\* on to the refresh, the upload log and the success alert whatever the store said.
FileUploadInsertUnchecked(r, ok) ==
    /\ activeTab = "transactions"
    /\ runs[r].pc = "insert"
    /\ table' = IF ok THEN InsertMany(table, runs[r].toInsert) ELSE table
    /\ issued' = IF ok THEN issued + Len(runs[r].toInsert) ELSE issued
    /\ runs' = [runs EXCEPT ![r].pc = "refresh", ![r].inserts = @ + 1,
                   ![r].calls = Append(@, "insert"),
                   ![r].persisted = IF ok
                                    THEN SubSeq(InsertMany(table, runs[r].toInsert),
                                                Len(table) + 1,
                                                Len(table) + Len(runs[r].toInsert))
                                    ELSE <<>>]
    /\ UNCHANGED <<activeTab, records, logs, logged, started, duplicateCount, others,
                   manualVars, elsewhere>>

\* The insert of handleFileUpload as a replacement of the table: the transactions
\* of the store are deleted before the new ones are inserted.
FileUploadInsertReplacing(r, ok) ==
    /\ activeTab = "transactions"
    /\ runs[r].pc = "insert"
    /\ IF ok
       THEN /\ table' = InsertMany(<<>>, runs[r].toInsert)
            /\ issued' = issued + Len(runs[r].toInsert)
            /\ runs' = [runs EXCEPT ![r].pc = "refresh", ![r].inserts = @ + 1,
                           ![r].calls = @ \o <<"delete", "insert">>,
                           ![r].persisted = InsertMany(<<>>, runs[r].toInsert)]
       ELSE /\ UNCHANGED <<table, issued>>
            /\ runs' = [runs EXCEPT ![r].pc = "done", ![r].inserts = @ + 1,
                           ![r].calls = @ \o <<"delete", "insert">>,
                           ![r].alert = "Failed to process CSV file"]
    /\ UNCHANGED <<activeTab, records, logs, logged, started, duplicateCount, others,
                   manualVars, elsewhere>>

\* handleFileUpload, the insert of the unique transactions: the store takes the whole
\* batch, or returns an error, which is thrown and caught with an alert.
FileUploadInsert(r, ok) ==
    /\ activeTab = "transactions"
    /\ runs[r].pc = "insert"
    /\ IF ok
       THEN /\ table' = InsertMany(table, runs[r].toInsert)
            /\ issued' = issued + Len(runs[r].toInsert)
            /\ runs' = [runs EXCEPT ![r].pc = "refresh", ![r].inserts = @ + 1,
                           ![r].calls = Append(@, "insert"),
                           ![r].persisted = SubSeq(InsertMany(table, runs[r].toInsert),
                                                   Len(table) + 1,
                                                   Len(table) + Len(runs[r].toInsert))]
       ELSE /\ UNCHANGED <<table, issued>>
            /\ runs' = [runs EXCEPT ![r].pc = "done", ![r].inserts = @ + 1,
                           ![r].calls = Append(@, "insert"),
                           ![r].alert = "Failed to process CSV file"]
    /\ UNCHANGED <<activeTab, records, logs, logged, started, duplicateCount, others,
                   manualVars, elsewhere>>

\* handleFileUpload after the insert: fetchTransactions (which alerts and keeps the
\* list when its select fails), the upload log entry and the success alert.
FileUploadRefresh(r, fetchOk) ==
    /\ activeTab = "transactions"
    /\ runs[r].pc = "refresh"
    /\ records' = IF fetchOk THEN table ELSE records
    /\ LET entry == LogEntry(Len(runs[r].toInsert), Len(runs[r].file), runs[r].duplicates)
       IN  /\ logs' = AddLog(logs, entry, KeptUploadLogs)
           /\ logged' = logged + 1
           /\ runs' = [runs EXCEPT ![r].pc = "done", ![r].log = entry,
                          ![r].calls = Append(@, "select"),
                          ![r].alert = "Successfully uploaded"]
    /\ UNCHANGED <<activeTab, table, started, duplicateCount, others, issued, manualVars, elsewhere>>

\* The run of handleDividendUpload when it reaches its insert, or ends with nothing
\* new, from the run the dialog left, the dividends it handed over and the outcome
\* of the forEach.
PageUploadRun(run0, total, loop) ==
    IF Len(loop.newDividends) = 0
    THEN [run0 EXCEPT !.pc = "done", !.dialog = "success", !.processed = total,
                      !.duplicates = loop.duplicates,
                      !.log = LogEntry(0, total, loop.duplicates),
                      !.alert = "Successfully imported"]
    ELSE [run0 EXCEPT !.pc = "insert", !.dialog = "success", !.processed = total,
                      !.duplicates = loop.duplicates, !.toInsert = loop.newDividends]

\* The run of the dialog's handleFileUpload: the error of a row that throws, the
\* error of a file without dividends, or the call of onUpload.
DialogUploadRun(run0, failed, done, dividends) ==
    IF failed # 0
    THEN [run0 EXCEPT !.pc = "done", !.dialog = "error", !.failedRow = failed,
                      !.errorMessage = RowErrorMessage(run0.file[failed], failed - 1),
                      !.skipped = done.skipped]
    ELSE IF Len(done.dividends) = 0
    THEN [run0 EXCEPT !.pc = "done", !.dialog = "error",
                      !.errorMessage = NoValidDividends, !.skipped = done.skipped]
    ELSE PageUploadRun([run0 EXCEPT !.skipped = done.skipped], Len(done.dividends),
                       UploadResult(done.dividends, dividends))

\* The dividend dialog's handleFileUpload and, when it calls onUpload, the part of
\* handleDividendUpload before the insert: the keys of the page's dividends, the
\* forEach, and, when nothing is new, the log entry and the alert.
DividendUploadBegin(r, file, overlap) ==
    /\ activeTab = "dividends"
    /\ MayBegin(r, overlap)
    /\ runs' = Begun(r, DialogUploadRun(NewRun(file), FirstFailedRow(file),
                                        DialogOutcome(file), records))
    /\ logs' = IF runs'[r].log.logged
               THEN AddLog(logs, runs'[r].log, KeptDividendUploadLogs)
               ELSE logs
    /\ logged' = IF runs'[r].log.logged THEN logged + 1 ELSE logged
    /\ duplicateCount' = duplicateCount + runs'[r].skipped
    /\ started' = started + 1
    /\ UNCHANGED <<activeTab, table, records, others, issued, manualVars, elsewhere>>

\* handleDividendUpload, the insert of the new dividends with select(): on success
\* the returned rows are appended to the page's list, the log entry is added and the
\* success alert shown; on an error the catch alerts.
DividendUploadInsert(r, ok) ==
    /\ activeTab = "dividends"
    /\ runs[r].pc = "insert"
    /\ LET data  == SubSeq(InsertMany(table, WithoutIds(runs[r].toInsert)),
                           Len(table) + 1, Len(table) + Len(runs[r].toInsert))
           entry == LogEntry(Len(runs[r].toInsert), runs[r].processed, runs[r].duplicates)
       IN  IF ok
           THEN /\ table' = InsertMany(table, WithoutIds(runs[r].toInsert))
                /\ issued' = issued + Len(runs[r].toInsert)
                /\ records' = records \o data
                /\ logs' = AddLog(logs, entry, KeptDividendUploadLogs)
                /\ logged' = logged + 1
                /\ runs' = [runs EXCEPT ![r].pc = "done", ![r].inserts = @ + 1,
                               ![r].calls = Append(@, "insert"),
                               ![r].persisted = data, ![r].log = entry,
                               ![r].alert = "Successfully imported"]
           ELSE /\ UNCHANGED <<table, issued, records, logs, logged>>
                /\ runs' = [runs EXCEPT ![r].pc = "done", ![r].inserts = @ + 1,
                               ![r].calls = Append(@, "insert"),
                               ![r].alert = "Failed to process dividend upload"]
    /\ UNCHANGED <<activeTab, started, duplicateCount, others, manualVars, elsewhere>>

\* The uploads of one admin, each finished before the next begins.
Next ==
    \/ \E r \in RunIds, file \in TransactionFiles, fetchOk \in BOOLEAN :
           FileUploadBegin(r, file, fetchOk, FALSE)
    \/ \E r \in RunIds, ok \in BOOLEAN : FileUploadInsert(r, ok)
    \/ \E r \in RunIds, fetchOk \in BOOLEAN : FileUploadRefresh(r, fetchOk)
    \/ \E r \in RunIds, file \in DividendFiles : DividendUploadBegin(r, file, FALSE)
    \/ \E r \in RunIds, ok \in BOOLEAN : DividendUploadInsert(r, ok)

Spec == Init /\ [][Next]_vars

\* The same uploads when a second one may begin while the first waits for the store.
NextRace ==
    \/ \E r \in RunIds, file \in TransactionFiles, fetchOk \in BOOLEAN :
           FileUploadBegin(r, file, fetchOk, TRUE)
    \/ \E r \in RunIds, ok \in BOOLEAN : FileUploadInsert(r, ok)
    \/ \E r \in RunIds, fetchOk \in BOOLEAN : FileUploadRefresh(r, fetchOk)
    \/ \E r \in RunIds, file \in DividendFiles : DividendUploadBegin(r, file, TRUE)
    \/ \E r \in RunIds, ok \in BOOLEAN : DividendUploadInsert(r, ok)

SpecRace == Init /\ [][NextRace]_vars

\* The record another session of the application adds to the table of the kind, the
\* first row of the kind's sample file.
OtherSessionRecord ==
    IF activeTab = "transactions" THEN MappedRow(TrxA) ELSE WithoutId(CreatedFrom(DivA))

\* Another session of the application inserts a record; this page's list is as it
\* was loaded.
OtherSessionInsert ==
    /\ others < MaxOtherWrites
    /\ \A q \in DOMAIN runs : ~InFlight(q)
    /\ table' = InsertMany(table, <<OtherSessionRecord>>)
    /\ issued' = issued + 1
    /\ others' = others + 1
    /\ UNCHANGED <<activeTab, records, logs, logged, runs, started, duplicateCount,
                   manualVars, elsewhere>>

\* The uploads of one admin while another session writes to the same store.
NextShared ==
    \/ \E r \in RunIds, file \in TransactionFiles, fetchOk \in BOOLEAN :
           FileUploadBegin(r, file, fetchOk, FALSE)
    \/ \E r \in RunIds, ok \in BOOLEAN : FileUploadInsert(r, ok)
    \/ \E r \in RunIds, fetchOk \in BOOLEAN : FileUploadRefresh(r, fetchOk)
    \/ \E r \in RunIds, file \in DividendFiles : DividendUploadBegin(r, file, FALSE)
    \/ \E r \in RunIds, ok \in BOOLEAN : DividendUploadInsert(r, ok)
    \/ OtherSessionInsert

SpecShared == Init /\ [][NextShared]_vars

\* The admin exports the transactions of the page and uploads the downloaded file.
\* handleExport alerts and downloads nothing when the page has no transaction.
ReimportExport(r, fetchOk) ==
    /\ records # <<>>
    /\ FileUploadBegin(r, handleExport(records), fetchOk, FALSE)

\* The admin exports the dividends of the page and uploads the downloaded file.
ReimportDividendExport(r) ==
    /\ records # <<>>
    /\ DividendUploadBegin(r, handleDividendExport(records), FALSE)

\* The uploads of one admin, of files of the model and of files the page exported.
NextExport ==
    \/ \E r \in RunIds, file \in TransactionFiles, fetchOk \in BOOLEAN :
           FileUploadBegin(r, file, fetchOk, FALSE)
    \/ \E r \in RunIds, ok \in BOOLEAN : FileUploadInsert(r, ok)
    \/ \E r \in RunIds, fetchOk \in BOOLEAN : FileUploadRefresh(r, fetchOk)
    \/ \E r \in RunIds, file \in DividendFiles : DividendUploadBegin(r, file, FALSE)
    \/ \E r \in RunIds, ok \in BOOLEAN : DividendUploadInsert(r, ok)
    \/ \E r \in RunIds, fetchOk \in BOOLEAN : ReimportExport(r, fetchOk)
    \/ \E r \in RunIds : ReimportDividendExport(r)

SpecExport == Init /\ [][NextExport]_vars

(***************************************************************************)
(* Add, edit, save and delete: handleAddNew, handleEdit, handleSave and    *)
(* handleDelete of the page, and their dividend counterparts.              *)
(***************************************************************************)
\* Largest number of saves and deletes in one behaviour.
MaxManualOps == 2

txActive == <<"a", "c", "t", "i", "v", "e">>

\* new Date().toISOString() in created_at and updated_at, kept as one symbol.
txNow == <<"<now>">>

\* The transaction handleAddNew puts into the edit dialog, with the id
\* `temp_${Date.now()}`.
NewTransaction ==
    [id |-> TempId(0), transactionType |-> Str(txBuy), currency |-> Str(txUSD),
     account |-> Str(<<>>), symbol |-> Str(<<>>), date |-> Today, quantity |-> Num(0),
     tradePrice |-> Num(0), commission |-> Num(0), exchangeRate |-> Num(100),
     status |-> Str(txActive), created_at |-> Str(txNow), updated_at |-> Str(txNow)]

\* The dividend handleDividendAddNew puts into the edit dialog.
NewDividend ==
    [id |-> TempId(0), transactionType |-> Str(txDividends), currency |-> Str(txUSD),
     account |-> Str(<<>>), symbol |-> Str(<<>>), date |-> Today, amount |-> Num(0),
     status |-> Str(txActive), created_at |-> Str(txNow), updated_at |-> Str(txNow)]

\* What the admin types into the account and symbol fields of the edit dialog.
FormValues ==
    {[account |-> txAcc1, symbol |-> txAAPL], [account |-> txAcc2, symbol |-> txAaplLower]}

\* The files the admin uploads between manual changes.
ManualTransactionFiles == {<<TrxA, TrxB>>}

ManualDividendFiles == {<<DivA, DivB>>}

\* The ids of a list of records.
Ids(list) == {list[i].id : i \in 1..Len(list)}

\* handleAddNew / handleDividendAddNew
AddNew ==
    /\ editing' = IF activeTab = "transactions" THEN NewTransaction ELSE NewDividend
    /\ editing' # editing
    /\ UNCHANGED <<activeTab, table, records, logs, logged, runs, started, duplicateCount, op,
                   others, issued, elsewhere>>

\* handleEdit / handleDividendEdit of the i-th record of the page's list.
Edit(i) ==
    /\ i \in 1..Len(records)
    /\ editing' = records[i]
    /\ editing' # editing
    /\ UNCHANGED <<activeTab, table, records, logs, logged, runs, started, duplicateCount, op,
                   others, issued, elsewhere>>

\* The onChange handlers of the account and symbol inputs of the edit dialog.
FillForm(values) ==
    /\ editing # Null
    /\ editing' = [editing EXCEPT !.account = Str(values.account),
                                  !.symbol = Str(values.symbol)]
    /\ editing' # editing
    /\ UNCHANGED <<activeTab, table, records, logs, logged, runs, started, duplicateCount, op,
                   others, issued, elsewhere>>

\* handleSubmit of the dividend dialog lets the form through: account and symbol are
\* not blank and the amount is not negative. The transaction dialog checks nothing.
FormPasses(record) ==
    activeTab = "dividends" =>
        /\ trim(record.account.s) # <<>>
        /\ trim(record.symbol.s) # <<>>
        /\ record.amount.v >= 0

\* The object a save is called with: editingTransaction as it is, and the form of the
\* dividend dialog with its symbol in upper case.
ToSave(record) ==
    IF activeTab = "transactions" THEN record
    ELSE [record EXCEPT !.symbol = Str(toUpperCase(record.symbol.s))]

\* A save that inserts the record as it is, its temporary id included.
InsertPayloadWithId(record) == record

\* const { id, ...transactionData } = editingTransaction: what the insert of a save
\* sends for a new record.
InsertPayload(record) == WithoutId(record)

\* update(record).eq('id', record.id): the table with the rows of that id replaced.
UpdateById(tbl, record) ==
    [i \in 1..Len(tbl) |-> IF tbl[i].id = record.id THEN StoredRecord(record, 0) ELSE tbl[i]]

\* prev.map(t => t.id === record.id ? record : t)
ReplaceById(list, record) ==
    [i \in 1..Len(list) |-> IF list[i].id = record.id THEN record ELSE list[i]]

\* The next operation of the page, with what its request sent.
NextOp(kind, ok, sent, ids) ==
    [n |-> op.n + 1, kind |-> kind, ok |-> ok, sent |-> sent, ids |-> ids,
     before |-> records, after |-> records', rows |-> <<Len(table), Len(table')>>]

\* handleSave / handleDividendSave for a record with a temporary id: the insert of
\* the record without its id, with select().single(); on success the returned row is
\* appended to the list and the dialog state is cleared, on an error the catch
\* alerts.
SaveNew(record, ok) ==
    IF ok
    THEN /\ table' = InsertMany(table, <<InsertPayload(record)>>)
         /\ issued' = issued + 1
         /\ records' = Append(records, table'[Len(table')])
         /\ editing' = Null
         /\ op' = NextOp("insert", TRUE, InsertPayload(record), {})
    ELSE /\ UNCHANGED <<table, issued, records, editing>>
         /\ op' = NextOp("insert", FALSE, InsertPayload(record), {})

\* handleSave / handleDividendSave for a record with an id of the store: the update
\* on that id; on success the record replaces its list entry.
SaveExisting(record, ok) ==
    IF ok
    THEN /\ table' = UpdateById(table, record)
         /\ records' = ReplaceById(records, record)
         /\ editing' = Null
         /\ op' = NextOp("update", TRUE, record, {record.id})
         /\ UNCHANGED issued
    ELSE /\ UNCHANGED <<table, issued, records, editing>>
         /\ op' = NextOp("update", FALSE, record, {record.id})

\* handleSave, and handleSubmit of the dividend dialog with handleDividendSave.
Save(ok) ==
    /\ editing # Null
    /\ op.n < MaxManualOps
    /\ \A q \in DOMAIN runs : ~InFlight(q)
    /\ FormPasses(editing)
    /\ IF editing.id.temp THEN SaveNew(ToSave(editing), ok)
       ELSE SaveExisting(ToSave(editing), ok)
    /\ UNCHANGED <<activeTab, logs, logged, runs, started, duplicateCount, others, elsewhere>>

\* handleDelete / handleDividendDelete: delete().in('id', ids); on success the
\* records of these ids leave the list.
Delete(ids, ok) ==
    /\ ids # {}
    /\ op.n < MaxManualOps
    /\ \A q \in DOMAIN runs : ~InFlight(q)
    /\ IF ok
       THEN /\ table' = SelectSeq(table, LAMBDA row : row.id \notin ids)
            /\ records' = SelectSeq(records, LAMBDA row : row.id \notin ids)
       ELSE UNCHANGED <<table, records>>
    /\ op' = NextOp("delete", ok, Null, ids)
    /\ UNCHANGED <<activeTab, logs, logged, runs, started, duplicateCount, editing, others,
                   issued, elsewhere>>

\* One admin, no other writer: uploads, each finished before the next begins, and
\* adds, edits and deletes between them.
NextManual ==
    \/ \E r \in RunIds, file \in ManualTransactionFiles, fetchOk \in BOOLEAN :
           FileUploadBegin(r, file, fetchOk, FALSE)
    \/ \E r \in RunIds, ok \in BOOLEAN : FileUploadInsert(r, ok)
    \/ \E r \in RunIds, fetchOk \in BOOLEAN : FileUploadRefresh(r, fetchOk)
    \/ \E r \in RunIds, file \in ManualDividendFiles : DividendUploadBegin(r, file, FALSE)
    \/ \E r \in RunIds, ok \in BOOLEAN : DividendUploadInsert(r, ok)
    \/ AddNew
    \/ \E i \in 1..Len(records) : Edit(i)
    \/ \E values \in FormValues : FillForm(values)
    \/ \E ok \in BOOLEAN : Save(ok)
    \/ \E ids \in SUBSET Ids(records), ok \in BOOLEAN : Delete(ids, ok)

SpecManual == Init /\ [][NextManual]_vars

(***************************************************************************)
(* AdvisorService.updateAdvisor and the advisor_client_assignments table.  *)
(***************************************************************************)
Advisors == {"ADV001", "ADV002"}

ClientAccounts == {"U1", "U2", "U3"}

\* A row of advisor_client_assignments.
Assignment(advisorId, clientAccount) ==
    [advisor_id |-> advisorId, client_account |-> clientAccount]

\* The client accounts the table assigns to the advisor.
AssignedClients(rows, advisorId) ==
    {row.client_account : row \in {a \in rows : a.advisor_id = advisorId}}

\* delete().eq('advisor_id', advisorId)
DeleteAssignments(rows, advisorId) == {row \in rows : row.advisor_id # advisorId}

\* insert(formData.assigned_clients.map(clientAccount => ({ advisor_id, client_account })))
InsertAssignments(rows, advisorId, clients) ==
    rows \cup {Assignment(advisorId, c) : c \in clients}

\* The assignments after the calls updateAdvisor makes until one fails: the update
\* of the advisor row, the delete of the advisor's assignments and, when the form
\* assigns any client, the insert of the new ones.
AssignmentsAfter(rows, advisorId, clients, updateOk, deleteOk, insertOk) ==
    IF ~updateOk \/ ~deleteOk THEN rows
    ELSE IF clients = {} \/ ~insertOk THEN DeleteAssignments(rows, advisorId)
    ELSE InsertAssignments(DeleteAssignments(rows, advisorId), advisorId, clients)

\* How the call ends: it returns the advisor, or throws the error of the first call
\* the store refused.
Outcome(clients, updateOk, deleteOk, insertOk) ==
    IF ~updateOk THEN "update failed"
    ELSE IF ~deleteOk THEN "delete failed"
    ELSE IF clients # {} /\ ~insertOk THEN "insert failed"
    ELSE "returned"

\* AdvisorService.updateAdvisor(advisorId, formData), formData.assigned_clients
\* being `clients`; the store serves or refuses each of its calls.
UpdateAdvisor(advisorId, clients, updateOk, deleteOk, insertOk) ==
    /\ assignments' =
           AssignmentsAfter(assignments, advisorId, clients, updateOk, deleteOk, insertOk)
    /\ advisorCall' = [pc |-> Outcome(clients, updateOk, deleteOk, insertOk),
                       advisorId |-> advisorId, clients |-> clients,
                       before |-> AssignedClients(assignments, advisorId)]
    /\ UNCHANGED <<activeTab, table, records, logs, logged, runs, started, duplicateCount,
                   others, issued, manualVars, dateVars, formatVars, mappingVars,
                   selectionVars>>

\* The advisor page over a table of assignments, the transactions page not in use.
InitAdvisors ==
    /\ activeTab = "transactions"
    /\ InitPage
    /\ runs = [r \in RunIds |-> IdleRun]
    /\ NoDateCall /\ NoFormatCall /\ NoMappingPage /\ NoSelection
    /\ assignments \in SUBSET {Assignment(a, c) : a \in Advisors, c \in ClientAccounts}
    /\ advisorCall = IdleAdvisorCall

NextAdvisors ==
    \E advisorId \in Advisors, clients \in SUBSET ClientAccounts,
       updateOk \in BOOLEAN, deleteOk \in BOOLEAN, insertOk \in BOOLEAN :
        UpdateAdvisor(advisorId, clients, updateOk, deleteOk, insertOk)

SpecAdvisors == InitAdvisors /\ [][NextAdvisors]_vars

(***************************************************************************)
(* AdminSymbolMappings: createMapping and updateMapping on symbol_mappings.*)
(***************************************************************************)
\* Largest number of createMapping and updateMapping calls in one behaviour.
MaxMappingCalls == 3

MappingCallIds == 1..MaxMappingCalls

\* What the admin types into the IBKR Symbol field.
FormSymbols == {<<>>, txAAPL, txAAPL \o <<" ">>, txGOOGL}

\* A row of symbol_mappings: its id and its ibkr_symbol. yahoo_symbol and the other
\* columns are filled in and take no part in any check but the required one.
Mapping(id, symbol) == [id |-> id, ibkr_symbol |-> symbol]

\* select('ibkr_symbol').eq('ibkr_symbol', symbol)
MappingsOf(rows, symbol) == SelectSeq(rows, LAMBDA row : row.ibkr_symbol = symbol)

\* The data of select(...).single(): the row when exactly one matches; with none or
\* several the request gives the error PGRST116 and no data.
Single(rows) == IF Len(rows) = 1 THEN rows[1] ELSE Null

\* update({ ibkr_symbol, ... }).eq('id', id)
UpdateMappingRow(rows, id, symbol) ==
    [i \in 1..Len(rows) |-> IF rows[i].id = id THEN Mapping(id, symbol) ELSE rows[i]]

\* The calls after call c took a step.
MappingStep(c, pc, kind, symbol, id) ==
    [mappingCalls EXCEPT ![c] = [pc |-> pc, kind |-> kind, symbol |-> symbol, id |-> id]]

\* createMapping up to the answer of its duplicate check: the required symbol, then
\* the select of the trimmed symbol. An error other than PGRST116 ends the call, a
\* row found ends it with "already exists", otherwise the insert is sent.
CreateMappingCheck(c, symbol, ok) ==
    /\ mappingCalls[c].pc = "idle"
    /\ \A b \in MappingCallIds : b < c => mappingCalls[b].pc # "idle"
    /\ mappingCalls' =
           MappingStep(c, IF trim(symbol) = <<>> THEN "required"
                          ELSE IF ~ok THEN "check failed"
                          ELSE IF Single(MappingsOf(mappings, trim(symbol))) # Null
                               THEN "already exists"
                          ELSE "insert",
                       "create", symbol, 0)
    /\ UNCHANGED <<activeTab, table, records, logs, logged, runs, started, duplicateCount,
                   others, issued, manualVars, dateVars, formatVars, advisorVars,
                   selectionVars, mappings>>

\* The insert of createMapping, of the form data as typed.
CreateMappingInsert(c, ok) ==
    /\ mappingCalls[c].pc = "insert"
    /\ mappings' = IF ok THEN Append(mappings, Mapping(Len(mappings) + 1,
                                                       mappingCalls[c].symbol))
                   ELSE mappings
    /\ mappingCalls' = MappingStep(c, IF ok THEN "created" ELSE "insert failed", "create",
                                   mappingCalls[c].symbol,
                                   IF ok THEN Len(mappings) + 1 ELSE 0)
    /\ UNCHANGED <<activeTab, table, records, logs, logged, runs, started, duplicateCount,
                   others, issued, manualVars, dateVars, formatVars, advisorVars,
                   selectionVars>>

\* updateMapping of the mapping being edited: the required symbol, then the update
\* on its id.
UpdateMapping(c, id, symbol, ok) ==
    /\ mappingCalls[c].pc = "idle"
    /\ \A b \in MappingCallIds : b < c => mappingCalls[b].pc # "idle"
    /\ id \in {mappings[i].id : i \in 1..Len(mappings)}
    /\ mappings' = IF trim(symbol) # <<>> /\ ok THEN UpdateMappingRow(mappings, id, symbol)
                   ELSE mappings
    /\ mappingCalls' =
           MappingStep(c, IF trim(symbol) = <<>> THEN "required"
                          ELSE IF ok THEN "updated" ELSE "update failed",
                       "update", symbol, id)
    /\ UNCHANGED <<activeTab, table, records, logs, logged, runs, started, duplicateCount,
                   others, issued, manualVars, dateVars, formatVars, advisorVars,
                   selectionVars>>

\* The tables the page starts from: no two rows with the same ibkr_symbol.
InitialMappings ==
    {<<>>, <<Mapping(1, txAAPL)>>, <<Mapping(1, txAAPL), Mapping(2, txGOOGL)>>}

InitMappings ==
    /\ activeTab = "transactions"
    /\ InitPage
    /\ runs = [r \in RunIds |-> IdleRun]
    /\ NoDateCall /\ NoFormatCall /\ NoAdvisorPage /\ NoSelection
    /\ mappings \in InitialMappings
    /\ mappingCalls = [c \in MappingCallIds |-> IdleMappingCall]

\* Calls of createMapping, which may interleave at their awaits, and of updateMapping.
NextMappings ==
    \/ \E c \in MappingCallIds, symbol \in FormSymbols, ok \in BOOLEAN :
           CreateMappingCheck(c, symbol, ok)
    \/ \E c \in MappingCallIds, ok \in BOOLEAN : CreateMappingInsert(c, ok)
    \/ \E c \in MappingCallIds, id \in 1..(2 + MaxMappingCalls), symbol \in FormSymbols,
          ok \in BOOLEAN : UpdateMapping(c, id, symbol, ok)

SpecMappings == InitMappings /\ [][NextMappings]_vars

(***************************************************************************)
(* TransactionTable and DividendTable: the selection and the deletes.      *)
(***************************************************************************)
\* The rows of the page's list as the table is first rendered.
MaxTableRows == 4

TableRowIds == 1..MaxTableRows

\* The transaction type of a row: Buy and Sell in turn.
RowType(id) == IF id % 2 = 1 THEN "Buy" ELSE "Sell"

TypeFilters == {"all", "Buy", "Sell"}

\* filteredTransactions: the rows of the list that pass the type filter. The table
\* gets them as its `transactions` prop.
Filtered(ids, filter) == {id \in ids : filter = "all" \/ RowType(id) = filter}

\* The admin sets the transaction type filter of the page.
ApplyFilter(filter) ==
    /\ displayed' = Filtered(rowIds, filter)
    /\ displayed' # displayed
    /\ UNCHANGED <<activeTab, table, records, logs, logged, runs, started, duplicateCount,
                   others, issued, manualVars, dateVars, formatVars, advisorVars,
                   mappingVars, rowIds, selected, passed>>

\* handleSelectAll
SelectAll(checked) ==
    /\ selected' = IF checked THEN displayed ELSE {}
    /\ selected' # selected
    /\ UNCHANGED <<activeTab, table, records, logs, logged, runs, started, duplicateCount,
                   others, issued, manualVars, dateVars, formatVars, advisorVars,
                   mappingVars, rowIds, displayed, passed>>

\* handleSelectTransaction, from the checkbox of a displayed row.
SelectTransaction(id, checked) ==
    /\ id \in displayed
    /\ selected' = IF checked THEN selected \cup {id} ELSE selected \ {id}
    /\ selected' # selected
    /\ UNCHANGED <<activeTab, table, records, logs, logged, runs, started, duplicateCount,
                   others, issued, manualVars, dateVars, formatVars, advisorVars,
                   mappingVars, rowIds, displayed, passed>>

\* onDelete(ids) of the page, handleDelete: when the store serves the delete the rows
\* leave the list, and with it the filtered list the table displays.
OnDelete(ids, ok, bulk) ==
    /\ passed' = [ids |-> ids, displayed |-> displayed, bulk |-> bulk]
    /\ rowIds' = IF ok THEN rowIds \ ids ELSE rowIds
    /\ displayed' = IF ok THEN displayed \ ids ELSE displayed

\* handleBulkDelete, the admin confirming: onDelete of the selected ids, then the
\* selection is emptied.
BulkDelete(ok) ==
    /\ selected # {}
    /\ OnDelete(selected, ok, TRUE)
    /\ selected' = {}
    /\ UNCHANGED <<activeTab, table, records, logs, logged, runs, started, duplicateCount,
                   others, issued, manualVars, dateVars, formatVars, advisorVars,
                   mappingVars>>

\* Delete in the menu of a displayed row, the admin confirming: onDelete([id]); the
\* selection is left as it is.
RowDelete(id, ok) ==
    /\ id \in displayed
    /\ OnDelete({id}, ok, FALSE)
    /\ UNCHANGED <<activeTab, table, records, logs, logged, runs, started, duplicateCount,
                   others, issued, manualVars, dateVars, formatVars, advisorVars,
                   mappingVars, selected>>

\* The list is fetched again after another session deleted a row.
RefreshWithout(id) ==
    /\ id \in rowIds
    /\ rowIds' = rowIds \ {id}
    /\ displayed' = displayed \ {id}
    /\ UNCHANGED <<activeTab, table, records, logs, logged, runs, started, duplicateCount,
                   others, issued, manualVars, dateVars, formatVars, advisorVars,
                   mappingVars, selected, passed>>

InitSelection ==
    /\ activeTab = "transactions"
    /\ InitPage
    /\ runs = [r \in RunIds |-> IdleRun]
    /\ NoDateCall /\ NoFormatCall /\ NoAdvisorPage /\ NoMappingPage
    /\ rowIds = TableRowIds
    /\ displayed = TableRowIds
    /\ selected = {}
    /\ passed = NotDeleted

NextSelection ==
    \/ \E filter \in TypeFilters : ApplyFilter(filter)
    \/ \E checked \in BOOLEAN : SelectAll(checked)
    \/ \E id \in TableRowIds, checked \in BOOLEAN : SelectTransaction(id, checked)
    \/ \E ok \in BOOLEAN : BulkDelete(ok)
    \/ \E id \in TableRowIds, ok \in BOOLEAN : RowDelete(id, ok)
    \/ \E id \in TableRowIds : RefreshWithout(id)

SpecSelection == InitSelection /\ [][NextSelection]_vars

\* handleClose of the dividend upload dialog: the status, the error message and the
\* counts are reset, and the messages of the finished upload are gone.
DialogClose ==
    /\ activeTab = "dividends"
    /\ \A q \in DOMAIN runs : ~InFlight(q)
    /\ duplicateCount # 0 \/ \E q \in DOMAIN runs : runs[q].pc = "done"
    /\ duplicateCount' = 0
    /\ runs' = [q \in DOMAIN runs |-> IF runs[q].pc = "done" THEN ClosedRun ELSE runs[q]]
    /\ UNCHANGED <<activeTab, table, records, logs, logged, started, others, issued, manualVars,
                   elsewhere>>

\* The dividends tab with its upload dialog.
InitDialog ==
    /\ activeTab = "dividends"
    /\ InitPage
    /\ runs = [r \in RunIds |-> IdleRun]
    /\ OnlyPage

\* The uploads of one admin in the dividend upload dialog, which stays open from one
\* upload to the next unless the admin closes it.
NextDialog ==
    \/ \E r \in RunIds, file \in DividendFiles : DividendUploadBegin(r, file, FALSE)
    \/ \E r \in RunIds, ok \in BOOLEAN : DividendUploadInsert(r, ok)
    \/ DialogClose

SpecDialog == InitDialog /\ [][NextDialog]_vars

\* Largest number of import runs started in a behaviour that fills the upload logs.
MaxLoggedRuns == 11

LogRunIds == 1..MaxLoggedRuns

\* The transaction rows of the files the admin uploads one after the other.
LogRows == <<TrxA, TrxB, TrxNoDate, TrxLower, TrxBadType, TrxNegative, TrxBadDate, TrxNoAccount>>

LogRow(n) == LogRows[((n - 1) % Len(LogRows)) + 1]

\* The file of the r-th transaction upload: a new row, every second time after the
\* row of the upload before.
TransactionLogFile(r) == IF r % 2 = 1 THEN <<LogRow(r)>> ELSE <<LogRow(r - 1), LogRow(r)>>

\* The file of the r-th dividend upload: the sample file or its first row.
DividendLogFile(r) == IF r % 2 = 1 THEN <<DivA>> ELSE <<DivA, DivB>>

\* The page before a long series of uploads.
InitLogs ==
    /\ activeTab \in {"transactions", "dividends"}
    /\ InitPage
    /\ runs = [r \in LogRunIds |-> IdleRun]
    /\ OnlyPage

\* A long series of uploads of one admin, each finished before the next begins.
NextLogs ==
    \/ \E r \in LogRunIds, fetchOk \in BOOLEAN :
           FileUploadBegin(r, TransactionLogFile(r), fetchOk, FALSE)
    \/ \E r \in LogRunIds, ok \in BOOLEAN : FileUploadInsert(r, ok)
    \/ \E r \in LogRunIds, fetchOk \in BOOLEAN : FileUploadRefresh(r, fetchOk)
    \/ \E r \in LogRunIds : DividendUploadBegin(r, DividendLogFile(r), FALSE)
    \/ \E r \in LogRunIds, ok \in BOOLEAN : DividendUploadInsert(r, ok)

SpecLogs == InitLogs /\ [][NextLogs]_vars

\* The uploads of files whose accounts and symbols hold the separator of the keys.
NextKeys ==
    \/ \E r \in RunIds, file \in FilesOver({TrxA, TrxBarA, TrxBarB}), fetchOk \in BOOLEAN :
           FileUploadBegin(r, file, fetchOk, FALSE)
    \/ \E r \in RunIds, ok \in BOOLEAN : FileUploadInsert(r, ok)
    \/ \E r \in RunIds, fetchOk \in BOOLEAN : FileUploadRefresh(r, fetchOk)
    \/ \E r \in RunIds, file \in FilesOver({DivA, DivHyphenA, DivHyphenB}) :
           DividendUploadBegin(r, file, FALSE)
    \/ \E r \in RunIds, ok \in BOOLEAN : DividendUploadInsert(r, ok)

SpecKeys == Init /\ [][NextKeys]_vars

\* A text that encodes a calendar date is about to be converted.
InitDates ==
    /\ activeTab = "dividends"
    /\ InitPage
    /\ runs = [r \in RunIds |-> IdleRun]
    /\ calendarDate \in CalendarDates
    /\ dateStr \in Encodings(calendarDate)
    /\ converted = Pending
    /\ NoFormatCall /\ NoAdvisorPage /\ NoMappingPage /\ NoSelection

\* The call convertDate(dateStr).
ConvertDate ==
    /\ converted = Pending
    /\ converted' = convertDate(dateStr)
    /\ UNCHANGED <<activeTab, table, records, logs, logged, runs, started, duplicateCount,
                   others, issued, manualVars, calendarDate, dateStr, formatVars, advisorVars,
                   mappingVars, selectionVars>>

NextDates == ConvertDate

SpecDates == InitDates /\ [][NextDates]_vars

\* The months and days written into texts of the shape of a date: month 00 and 13
\* and day 00, 32 and 45 are on no calendar; the days are those every month has.
ShapedMonths == 0..13

ShapedDays == {0, 1, 15, 28, 32, 45}

ShapedDates == [y : {MinYear}, m : ShapedMonths, d : ShapedDays]

\* Texts given to convertDate: the digit shapes and the month-name form of dates on
\* and off the calendar, a text of letters and the empty text.
DateTexts ==
    {YmdText(x) : x \in ShapedDates} \cup {DmyText(x) : x \in ShapedDates}
    \cup {NamedText(x, TRUE, short, "title") :
              x \in {z \in ShapedDates : z.m \in 1..12}, short \in BOOLEAN}
    \cup {txGarbage, <<>>, InvalidDateText}

\* A text of DateTexts is about to be converted.
InitTexts ==
    /\ activeTab = "dividends"
    /\ InitPage
    /\ runs = [r \in RunIds |-> IdleRun]
    /\ calendarDate = InvalidDate
    /\ dateStr \in DateTexts
    /\ converted = Pending
    /\ NoFormatCall /\ NoAdvisorPage /\ NoMappingPage /\ NoSelection

SpecTexts == InitTexts /\ [][NextDates]_vars

\* The values given to formatDate for a calendar date: the Date and its encodings.
FormatArgsOf(date) == {date} \cup {Str(text) : text \in Encodings(date)}

\* The values given to formatDate that name no calendar date: the texts of DateTexts
\* that are written for none, the Invalid Date, and values that are neither a string
\* nor a Date.
OtherFormatArgs ==
    {Str(YmdText(x)) : x \in {z \in ShapedDates : DateOfYmd(z.y, z.m, z.d) = InvalidDate}}
    \cup {Str(DmyText(x)) : x \in {z \in ShapedDates : DateOfYmd(z.y, z.m, z.d) = InvalidDate}}
    \cup {Str(txGarbage), Str(<<>>), Str(InvalidDateText), InvalidDate, Null, Undefined, Num(0)}

\* A value is about to be formatted; calendarDate is the date it is written for, the
\* Invalid Date when it is written for none.
InitFormat ==
    /\ activeTab = "dividends"
    /\ InitPage
    /\ runs = [r \in RunIds |-> IdleRun]
    /\ calendarDate \in CalendarDates \cup {InvalidDate}
    /\ dateArg \in IF calendarDate = InvalidDate THEN OtherFormatArgs
                   ELSE FormatArgsOf(calendarDate)
    /\ dateStr = <<>>
    /\ converted = Pending
    /\ formatted = NotCalled
    /\ reformatted = NotCalled
    /\ NoAdvisorPage /\ NoMappingPage /\ NoSelection

\* The call formatDate(dateArg).
FormatDate ==
    /\ formatted = NotCalled
    /\ formatted' = formatDate(dateArg)
    /\ UNCHANGED <<activeTab, table, records, logs, logged, runs, started, duplicateCount,
                   others, issued, manualVars, dateVars, dateArg, reformatted, advisorVars,
                   mappingVars, selectionVars>>

\* The call of formatDate with the text the first call returned.
FormatAgain ==
    /\ formatted # NotCalled
    /\ reformatted = NotCalled
    /\ reformatted' = formatDate(Str(formatted))
    /\ UNCHANGED <<activeTab, table, records, logs, logged, runs, started, duplicateCount,
                   others, issued, manualVars, dateVars, dateArg, formatted, advisorVars,
                   mappingVars, selectionVars>>

NextFormat == FormatDate \/ FormatAgain

SpecFormat == InitFormat /\ [][NextFormat]_vars

(***************************************************************************)
(* The vocabulary of the properties.                                       *)
(***************************************************************************)
\* The natural key of a persisted record: its date as YYYY-MM-DD, account, type tag,
\* symbol and principal numeric fields (amount for a dividend, quantity and price
\* for a transaction).
NaturalKey(rec) ==
    IF "amount" \in DOMAIN rec
    THEN <<rec.date, rec.account, rec.transactionType, rec.symbol, rec.amount>>
    ELSE <<rec.date, rec.account, rec.transactionType, rec.symbol, rec.quantity,
           rec.tradePrice>>

NaturalKeys(tbl) == {NaturalKey(tbl[i]) : i \in 1..Len(tbl)}

\* The number of records of a table with a natural key.
KeyCount(tbl, key) == Cardinality({i \in 1..Len(tbl) : NaturalKey(tbl[i]) = key})

\* A cell holds a date text that names a day of the calendar.
ValidDateCell(cell) ==
    /\ Truthy(cell)
    /\ ~convertDate(cell.s).threw
    /\ ~IsInvalidDate(convertDate(cell.s).date)

\* A cell holds the text of a number that is not negative.
NonNegativeCell(cell) ==
    /\ Truthy(cell)
    /\ parseFloat(cell.s).t = "number"
    /\ parseFloat(cell.s).v >= 0

\* A row passes the validation of its kind: account, symbol and type tag present, a
\* valid date, and numbers that parse and are not negative.
ValidRow(row) ==
    /\ Truthy(row.TransactionType) /\ Truthy(row.Account) /\ Truthy(row.Symbol)
    /\ ValidDateCell(row.Date)
    /\ IF "Amount" \in DOMAIN row
       THEN /\ row.TransactionType.s = txDividends
            /\ Truthy(row.Currency)
            /\ NonNegativeCell(row.Amount)
       ELSE /\ row.TransactionType.s \in {txBuy, txSell}
            /\ NonNegativeCell(row.Quantity)
            /\ NonNegativeCell(row.TradePrice)
            /\ (Truthy(row.Commission) => NonNegativeCell(row.Commission))

\* The natural key of the record a valid row stands for.
RowKey(row) ==
    NaturalKey(StoredRecord(IF "Amount" \in DOMAIN row THEN DividendOf(row, 0)
                            ELSE TransactionOf(row), 0))

FileKeys(file) == {RowKey(file[i]) : i \in 1..Len(file)}

AllValid(file) == \A i \in 1..Len(file) : ValidRow(file[i])

\* A file of at least one row, all valid, with pairwise distinct natural keys.
ValidDistinctFile(file) ==
    /\ file # <<>>
    /\ AllValid(file)
    /\ \A i, j \in 1..Len(file) : RowKey(file[i]) = RowKey(file[j]) => i = j

\* The run met an error of the store: a select or an insert that failed.
StoreFailed(r) ==
    runs[r].alert \in {"Failed to process CSV file", "Failed to process dividend upload"}

\* The run has ended and the store served all its requests.
Ended(r) == runs[r].pc = "done" /\ ~StoreFailed(r)

\* The rows the run recorded as errors, by row number.
ErrorRows(r) == IF runs[r].failedRow = 0 THEN {} ELSE {runs[r].failedRow}

(***************************************************************************)
(* Properties.                                                             *)
(***************************************************************************)
\* The run imported its file into an empty store.
FirstImport(r) ==
    Ended(r) /\ ValidDistinctFile(runs[r].file) /\ runs[r].pre = <<>>

\* The run imported its file into a store that held exactly the records of that
\* file: the same file imported again.
SecondImport(r) ==
    /\ Ended(r) /\ ValidDistinctFile(runs[r].file)
    /\ Len(runs[r].pre) = Len(runs[r].file)
    /\ NaturalKeys(runs[r].pre) = FileKeys(runs[r].file)

\* C1: importing a file of N valid rows with pairwise distinct natural keys persists
\* N records, and importing the same file again persists none: the second run counts
\* all N rows as duplicates and leaves the store as the first run left it.
C1_ImportIsIdempotent ==
    \A r \in RunIds :
        /\ FirstImport(r) => Len(runs[r].persisted) = Len(runs[r].file)
        /\ SecondImport(r) =>
               /\ runs[r].persisted = <<>>
               /\ runs[r].duplicates = Len(runs[r].file)
               /\ table = runs[r].pre

\* C2: when rows of one file share a natural key that is not in the store, exactly
\* the first of them is persisted, and every later one is excluded and counted as a
\* duplicate (by the page or by the dialog).
C2_FirstOccurrenceWins ==
    \A r \in RunIds :
        Ended(r) /\ AllValid(runs[r].file) =>
            /\ \A key \in FileKeys(runs[r].file) \ NaturalKeys(runs[r].pre) :
                   KeyCount(runs[r].persisted, key) = 1
            /\ runs[r].duplicates + runs[r].skipped
                   = Len(runs[r].file) - Len(runs[r].persisted)

\* C3: after any sequence of import runs, each finished before the next starts, no
\* two persisted records of a kind share a natural key.
C3_NaturalKeysUnique ==
    \A i, j \in 1..Len(table) : NaturalKey(table[i]) = NaturalKey(table[j]) => i = j

\* Two runs that have ended took their snapshot of the store before the insert of
\* the other: both began from the same store, and both are still shown.
Interleaved(r1, r2) ==
    /\ r1 # r2
    /\ Ended(r1) /\ Ended(r2)
    /\ runs[r1].pre = runs[r2].pre

\* C4: when two import runs interleave and both files have a row with the same
\* natural key, new to the store, the store never holds two records with that key.
C4_RaceClosed ==
    \A r1, r2 \in RunIds :
        /\ Interleaved(r1, r2)
        /\ ValidDistinctFile(runs[r1].file) /\ ValidDistinctFile(runs[r2].file)
        => \A key \in (FileKeys(runs[r1].file) \cap FileKeys(runs[r2].file))
                          \ NaturalKeys(runs[r1].pre) :
               KeyCount(table, key) <= 1

\* C5: a row that fails validation does not abort the batch: every valid row of the
\* file is persisted (by this run, or earlier when it is a duplicate), and every
\* failing row is recorded as an error under its row number.
C5_SkipAndReport ==
    \A r \in RunIds :
        Ended(r) =>
            \A i \in 1..Len(runs[r].file) :
                IF ValidRow(runs[r].file[i])
                THEN RowKey(runs[r].file[i]) \in NaturalKeys(table)
                ELSE i \in ErrorRows(r)

\* C6: no persisted record has an empty account, an empty symbol, or a date that is
\* missing or invalid; and none has the day of the run put in place of a blank or
\* unparseable date (no file of the model names that day).
C6_NoIncompleteRecord ==
    \A i \in 1..Len(table) :
        /\ Truthy(table[i].account)
        /\ Truthy(table[i].symbol)
        /\ table[i].date.t = "string"
        /\ table[i].date # Str(YmdText(Today))

\* The numeric fields of a persisted record that must not be negative.
NonNegativeFields(rec) ==
    IF "amount" \in DOMAIN rec THEN {"amount"} ELSE {"quantity", "tradePrice", "commission"}

\* C7: no persisted record has an amount, quantity, price or commission that could
\* not be parsed or is negative.
C7_NoBadNumber ==
    \A i \in 1..Len(table) :
        \A f \in NonNegativeFields(table[i]) :
            table[i][f].t = "number" /\ table[i][f].v >= 0

\* C8: the summary of a run is exact: totalProcessed is the number of data rows of
\* the file, newCount the number of records the run persisted, and, for a file of
\* valid rows, duplicateCount the rows left out, so that
\* totalProcessed = newCount + duplicateCount.
C8_SummaryExact ==
    \A r \in RunIds :
        runs[r].log.logged /\ AllValid(runs[r].file) =>
            /\ runs[r].log.total = Len(runs[r].file)
            /\ runs[r].log.new = Len(runs[r].persisted)
            /\ runs[r].log.duplicates = Len(runs[r].file) - Len(runs[r].persisted)
            /\ runs[r].log.total = runs[r].log.new + runs[r].log.duplicates

\* C9: every import run that parsed at least one data row and has ended has produced
\* a summary, also when every row was a duplicate or some row was invalid.
C9_SummaryAlwaysProduced ==
    \A r \in RunIds :
        Ended(r) /\ Len(runs[r].file) >= 1 => runs[r].log.logged

\* The insert of the run was attempted and persisted nothing: it failed.
InsertFailed(r) == runs[r].inserts > 0 /\ runs[r].persisted = <<>>

Shown(r) == runs[r].pc \notin {"idle", "closed"}

\* Every record of a table is a record of another, with the same fields.
KeptIn(before, after) ==
    \A i \in 1..Len(before) : \E j \in 1..Len(after) : after[j] = before[i]

\* C11: an import run sends the store only selects and inserts, never an update or
\* a delete, and every record the store held when the run began is still in the
\* store with the same fields, while the run goes on and after it ended, whether
\* its insert succeeded or failed.
C11_AppendOnly ==
    \A r \in RunIds :
        Shown(r) =>
            /\ \A i \in 1..Len(runs[r].calls) : runs[r].calls[i] \in {"select", "insert"}
            /\ KeptIn(runs[r].pre, table)

\* A run has inserted into a store that already held records, and ended.
C11_Witness ==
    \E r \in RunIds :
        /\ runs[r].pc = "done"
        /\ runs[r].pre # <<>>
        /\ runs[r].persisted # <<>>
        /\ Len(table) = Len(runs[r].pre) + Len(runs[r].persisted)

\* The run reported its file as one without data: the alert of the transaction
\* upload, or the error of the dividend dialog, which names no row.
EmptyInputReported(r) ==
    IF activeTab = "transactions"
    THEN runs[r].alert = "No data found in CSV file"
    ELSE /\ runs[r].dialog = "error"
         /\ runs[r].errorMessage = NoValidDividends
         /\ runs[r].failedRow = 0

\* C12: a run whose file has no data rows reports the empty input for the whole
\* run, not for a row; it sends the store no request, leaves the store and the
\* page's list as they were, and produces no summary and no success message. The
\* empty-input report is given for no file that has a data row.
C12_EmptyInputReported ==
    \A r \in RunIds :
        /\ runs[r].pc = "done" /\ runs[r].file = <<>> =>
               /\ EmptyInputReported(r)
               /\ runs[r].calls = <<>> /\ runs[r].inserts = 0
               /\ table = runs[r].pre /\ records = runs[r].list
               /\ ~runs[r].log.logged
               /\ runs[r].alert \notin {"Successfully uploaded", "Successfully imported"}
               /\ runs[r].dialog # "success"
        /\ runs[r].pc = "done" /\ EmptyInputReported(r) => runs[r].file = <<>>

\* A run of a file without data rows has ended, on a page and a store that hold
\* records of an earlier run.
C12_Witness ==
    \E r \in RunIds :
        /\ runs[r].pc = "done" /\ runs[r].file = <<>>
        /\ EmptyInputReported(r)
        /\ table # <<>> /\ records # <<>>

\* C13: the duplicate check of a run uses the keys the store holds when the run
\* starts, not the list the page loaded earlier: a valid row whose natural key is in
\* the store at that moment, but not in the page's list, is not persisted by the run.
C13_StoreKeysAtStart ==
    \A r \in RunIds :
        Ended(r) =>
            \A i \in 1..Len(runs[r].file) :
                /\ ValidRow(runs[r].file[i])
                /\ RowKey(runs[r].file[i])
                       \in NaturalKeys(runs[r].pre) \ NaturalKeys(runs[r].list)
                => RowKey(runs[r].file[i]) \notin NaturalKeys(runs[r].persisted)

\* The type tags of the kind of the active tab.
KindTypes == IF activeTab = "transactions" THEN {Str(txBuy), Str(txSell)} ELSE {Str(txDividends)}

\* The header names an import of the kind of the active tab reads.
ImportHeaders ==
    IF activeTab = "transactions"
    THEN {"TransactionType", "Currency", "Account", "Symbol", "Date", "Quantity",
          "TradePrice", "Commission", "ExchangeRate"}
    ELSE {requiredHeaders[i] : i \in 1..Len(requiredHeaders)}

\* A record of the page's list is valid: account, symbol, currency and type tag
\* present, the symbol in upper case, a date, and numbers that are not negative.
ValidRecord(rec) ==
    /\ Truthy(rec.account) /\ Truthy(rec.symbol) /\ Truthy(rec.currency)
    /\ rec.symbol.s = toUpperCase(rec.symbol.s)
    /\ rec.transactionType \in KindTypes
    /\ rec.date.t = "string" /\ IsoShape(rec.date.s)
    /\ \A f \in NonNegativeFields(rec) : rec[f].t = "number" /\ rec[f].v >= 0
    /\ "exchangeRate" \in DOMAIN rec => rec.exchangeRate.t = "number"

\* The record an import builds from a row, as the store keeps it, without its id.
ImportedRecord(row) ==
    IF "Amount" \in DOMAIN row
    THEN [f \in DOMAIN DividendOf(row, 0) \ {"id"} |-> Stored(DividendOf(row, 0)[f])]
    ELSE [f \in DOMAIN TransactionOf(row) |-> Stored(TransactionOf(row)[f])]

\* The file the page exports from its list.
ExportedFile(list) ==
    IF activeTab = "transactions" THEN handleExport(list) ELSE handleDividendExport(list)

\* The run imported the file exported from the page's list of valid records.
ImportedExport(r) ==
    /\ Shown(r)
    /\ runs[r].list # <<>>
    /\ \A i \in 1..Len(runs[r].list) : ValidRecord(runs[r].list[i])
    /\ runs[r].file = ExportedFile(runs[r].list)

\* C14: the file exported from a list of valid records has the header names the
\* import of the kind reads and every date as YYYY-MM-DD; the record the import
\* builds from each row equals the exported record in every imported field; and a
\* run that imports the file into the store the list was loaded from finds every
\* row a duplicate: it inserts nothing.
C14_ExportRoundTrip ==
    \A r \in RunIds :
        ImportedExport(r) =>
            /\ \A i \in 1..Len(runs[r].file) :
                   /\ DOMAIN runs[r].file[i] = ImportHeaders
                   /\ IsoShape(runs[r].file[i].Date.s)
                   /\ \A f \in DOMAIN ImportedRecord(runs[r].file[i]) :
                          ImportedRecord(runs[r].file[i])[f] = runs[r].list[i][f]
            /\ runs[r].pc = "done" /\ ~StoreFailed(r) =>
                   /\ runs[r].toInsert = <<>>
                   /\ runs[r].persisted = <<>>

\* C15: the encodings of a calendar date (YYYY-MM-DD, DD-MM-YYYY, the day with a
\* full or a three-letter month name in any letter case, with or without the day's
\* leading zero, with or without whitespace around the text) are all converted by
\* convertDate to that calendar date.
C15_EncodingsAgree ==
    converted # Pending => converted = Returned(calendarDate)

\* "15 JAN 2024" with blanks around it has been converted to 2024-01-15.
C15_Witness ==
    /\ calendarDate = DateObj(2024, 1, 15)
    /\ dateStr = <<" ">> \o NamedText(calendarDate, TRUE, TRUE, "upper") \o <<" ", " ">>
    /\ converted = Returned(calendarDate)
    /\ FormattedDate(converted.date) = txJan15

\* The rows before row i of the run's file are valid.
ValidBefore(r, i) == \A j \in 1..(i - 1) : ValidRow(runs[r].file[j])

\* A cell holds a date text that convertDate rejects: it matches none of the three
\* patterns and the fallback parser does not accept it.
RejectedDateCell(cell) == Truthy(cell) /\ convertDate(cell.s).threw

\* Only the date of a row is wrong: the row is valid once its date is replaced.
OnlyDateWrong(row) ==
    /\ RejectedDateCell(row.Date)
    /\ ValidRow([row EXCEPT !.Date = Str(txJan15)])

\* The message a run shows is an invalid-date-format error that ends with a text.
NamesDateError(message, text) ==
    /\ \E k \in 1..Len(message) : message[k] = "Invalid date format in row "
    /\ Len(message) > Len(text)
    /\ SubSeq(message, Len(message) - Len(text) + 1, Len(message)) = text

\* C16: a row whose date convertDate rejects (and that is otherwise valid, after
\* valid rows) is rejected with an invalid-date-format error that names the date
\* text, and no record of it is persisted, in the import of either kind.
C16_BadDateRejected ==
    \A r \in RunIds :
        Ended(r) =>
            \A i \in 1..Len(runs[r].file) :
                OnlyDateWrong(runs[r].file[i]) /\ ValidBefore(r, i) =>
                    /\ NamesDateError(runs[r].errorMessage, runs[r].file[i].Date.s)
                    /\ RowKey(runs[r].file[i]) \notin NaturalKeys(runs[r].persisted)

\* Only the Currency cell of a row is blank: the row is valid once it names one.
OnlyCurrencyBlank(row) ==
    /\ row.Currency = Str(<<>>)
    /\ ValidRow([row EXCEPT !.Currency = Str(txUSD)])

\* The row of a run was imported with a value in a field: the run persisted a record
\* of the row's natural key with that value, unless the store held the key already.
ImportedWith(r, row, field, value) ==
    \/ RowKey(row) \in NaturalKeys(runs[r].pre)
    \/ \E j \in 1..Len(runs[r].persisted) :
           /\ NaturalKey(runs[r].persisted[j]) = RowKey(row)
           /\ runs[r].persisted[j][field] = value

\* C17: a row whose Currency cell is blank is imported with the currency "USD", in
\* both kinds, and a transaction row whose Exchange Rate cell is blank is imported
\* with the exchange rate 1.0 (the files are those whose other rows are valid).
C17_BlankCellsDefaulted ==
    \A r \in RunIds :
        /\ Ended(r)
        /\ \A i \in 1..Len(runs[r].file) :
               ValidRow(runs[r].file[i]) \/ OnlyCurrencyBlank(runs[r].file[i])
        => \A i \in 1..Len(runs[r].file) :
               /\ OnlyCurrencyBlank(runs[r].file[i]) =>
                      ImportedWith(r, runs[r].file[i], "currency", Str(txUSD))
               /\ "ExchangeRate" \in DOMAIN runs[r].file[i]
                      /\ runs[r].file[i].ExchangeRate = Str(<<>>) =>
                      ImportedWith(r, runs[r].file[i], "exchangeRate", Num(100))

\* Two rows differ in the letter case of their symbols at most.
SameButCase(row1, row2) ==
    /\ Truthy(row1.Symbol) /\ Truthy(row2.Symbol)
    /\ [row1 EXCEPT !.Symbol = Str(toUpperCase(row1.Symbol.s))]
           = [row2 EXCEPT !.Symbol = Str(toUpperCase(row2.Symbol.s))]

\* C18: every persisted record has its symbol in upper case, and two valid rows of
\* a file that differ only in the letter case of the symbol stand for records of
\* the same natural key.
C18_SymbolsUpperCase ==
    /\ \A i \in 1..Len(table) :
           table[i].symbol.t = "string" =>
               table[i].symbol.s = toUpperCase(table[i].symbol.s)
    /\ \A r \in RunIds :
           Ended(r) =>
               \A i, j \in 1..Len(runs[r].file) :
                   /\ ValidRow(runs[r].file[i]) /\ ValidRow(runs[r].file[j])
                   /\ SameButCase(runs[r].file[i], runs[r].file[j])
                   => RowKey(runs[r].file[i]) = RowKey(runs[r].file[j])

\* The required columns a row lacks, in the order of requiredHeaders.
LackingColumns(row) == SelectSeq(requiredHeaders, LAMBDA header : row[header] = Undefined)

\* The missing-headers error of row i that lists the given columns.
MissingHeadersError(i, columns) ==
    <<"Row ">> \o NatToText(i) \o <<": ", "Missing required headers: ">>
    \o Join([k \in 1..Len(columns) |-> <<columns[k]>>], <<", ">>)

\* C19: in a dividend import, a row that lacks required columns (after valid rows)
\* fails with the missing-headers error that lists exactly the columns the row
\* lacks, and the run persists nothing.
C19_MissingColumnsListed ==
    \A r \in RunIds :
        activeTab = "dividends" /\ runs[r].pc = "done" =>
            \A i \in 1..Len(runs[r].file) :
                LackingColumns(runs[r].file[i]) # <<>> /\ ValidBefore(r, i) =>
                    /\ runs[r].dialog = "error"
                    /\ runs[r].errorMessage
                           = MissingHeadersError(i, LackingColumns(runs[r].file[i]))
                    /\ runs[r].inserts = 0

\* Only the type tag of a row is wrong: it is present, it is no type tag of the
\* kind, and the row is valid once it is replaced by one.
OnlyTypeWrong(row) ==
    /\ Truthy(row.TransactionType)
    /\ row.TransactionType \notin KindTypes
    /\ ValidRow([row EXCEPT !.TransactionType =
                                IF "Amount" \in DOMAIN row THEN Str(txDividends)
                                ELSE Str(txBuy)])

\* C20: a row whose Transaction Type is not the type tag of its kind ("Dividends"
\* for a dividend, a transaction type for a transaction) fails validation: no
\* persisted record carries such a tag, and a run whose file has such a row (after
\* valid rows) shows an error and persists no record of that row.
C20_TypeTagChecked ==
    /\ \A i \in 1..Len(table) : table[i].transactionType \in KindTypes
    /\ \A r \in RunIds :
           Ended(r) =>
               \A i \in 1..Len(runs[r].file) :
                   OnlyTypeWrong(runs[r].file[i]) /\ ValidBefore(r, i) =>
                       /\ runs[r].errorMessage # <<>>
                       /\ RowKey(runs[r].file[i]) \notin NaturalKeys(runs[r].persisted)

\* The text the claim expects of formatDate for its argument: the text itself when
\* it has the shape YYYY-MM-DD, the YYYY-MM-DD form of the date the argument is
\* written for, "Invalid Date" for everything else.
Canonical ==
    IF dateArg.t = "string" /\ IsoShape(dateArg.s) THEN dateArg.s
    ELSE IF calendarDate # InvalidDate THEN YmdText(calendarDate)
    ELSE InvalidDateText

\* C23: formatDate is total and canonical. Every call returns a text and throws
\* nothing; a text of the shape YYYY-MM-DD comes back unchanged, a valid Date and a
\* text in another supported format come back as the YYYY-MM-DD form of the date,
\* everything that cannot be parsed gives "Invalid Date"; and formatDate of the
\* result is the result.
C23_FormatDateCanonical ==
    /\ formatted # NotCalled => formatted # Thrown /\ formatted = Canonical
    /\ reformatted # NotCalled => reformatted = formatted

\* C23 witness: a text in a supported format other than YYYY-MM-DD was formatted to
\* the YYYY-MM-DD form of its date, and formatting that form again gave it back.
C23_Witness ==
    /\ calendarDate # InvalidDate
    /\ dateArg.t = "string" /\ ~IsoShape(dateArg.s)
    /\ formatted = YmdText(calendarDate)
    /\ reformatted = formatted

\* C24: convertDate has two outcomes only. For every text it either throws or
\* returns a Date that is a day of the calendar; it never returns an Invalid Date,
\* also for a text with the digits of a supported shape and month 13 or day 45.
C24_ValidDateOrThrow ==
    converted # Pending => converted.threw \/ ~IsInvalidDate(converted.date)

\* The run classified the rows of a file of valid rows that differ from one another
\* and from every record of the store in a field of the natural key.
FreshRows(r) ==
    /\ Ended(r)
    /\ ValidDistinctFile(runs[r].file)
    /\ FileKeys(runs[r].file) \cap NaturalKeys(runs[r].pre) = {}

\* C22: no false duplicates. A valid row is classified as a duplicate only if an
\* earlier row of its file or a record of the store agrees with it on date, account,
\* type tag, symbol and principal numeric fields: a run whose rows differ from one
\* another and from every stored record in one of these fields counts no duplicate,
\* whatever characters the accounts and symbols hold.
C22_NoFalseDuplicates ==
    \A r \in RunIds : FreshRows(r) => runs[r].duplicates + runs[r].skipped = 0

\* The dialog shows the success line of run r, with its count of skipped duplicates.
SuccessShown(r) == runs[r].pc \in {"insert", "done"} /\ runs[r].dialog = "success"

\* C25: the number of skipped duplicates the dividend upload dialog shows after an
\* upload is the number of in-file duplicate rows of that upload alone, also when
\* earlier uploads were done in the dialog without closing it.
C25_DuplicateCountPerUpload ==
    \A r \in RunIds : SuccessShown(r) => duplicateCount = runs[r].skipped

\* The largest number of entries the claim allows in the upload log of the tab.
LogLimit == IF activeTab = "transactions" THEN 5 ELSE 10

\* The entries of a log that are still in it after one more entry was added.
KeptEntries(prev) ==
    SubSeq(prev, 1, IF Len(prev) < LogLimit THEN Len(prev) ELSE LogLimit - 1)

\* A step that logs an import: the entry of the run that completed is the first of
\* the log, and behind it are the most recent entries of the log before, in their
\* order.
LogsImport ==
    /\ logged' = logged + 1
    /\ logs' # <<>>
    /\ \E r \in DOMAIN runs :
           /\ ~runs[r].log.logged
           /\ runs'[r].log.logged
           /\ runs'[r].log = Head(logs')
    /\ Tail(logs') = KeptEntries(logs)

C21_TempIdsNeverStored ==
    /\ \A i \in 1..Len(table) : ~table[i].id.temp
    /\ Cardinality(Ids(table)) = Len(table)
    /\ op.kind = "insert" => "id" \notin DOMAIN op.sent
    /\ op.kind = "update" =>
           /\ ~op.sent.id.temp
           /\ op.ids = {op.sent.id}
           /\ op.rows[2] = op.rows[1]

\* A new record was saved and then edited and saved again, with no upload between.
C21_Witness ==
    /\ started = 0
    /\ op.n = 2
    /\ op.kind = "update"
    /\ op.ok
    /\ Len(table) = 1
    /\ table[1].account = Str(txAcc2)

\* The list and the store hold the records of the same ids.
ListTracksStore == Ids(records) = Ids(table) /\ Len(records) = Len(table)

\* C27: with no other writer, once an operation of the page has finished, the list
\* holds the records of the store; a save or delete the store refused left the list
\* as it was, and so did an upload whose store request failed.
C27_ListTracksStore ==
    /\ (\A q \in DOMAIN runs : ~InFlight(q)) => ListTracksStore
    /\ ~op.ok => op.after = op.before
    /\ \A q \in DOMAIN runs :
           (runs[q].pc = "done" /\ StoreFailed(q) /\ started = q /\ op.n = 0)
               => records = runs[q].list
\* C28: when a call of updateAdvisor has thrown, the store assigns to that advisor
\* the client accounts it assigned before the call.
C28_UpdateAdvisorAllOrNothing ==
    advisorCall.pc \in {"update failed", "delete failed", "insert failed"} =>
        AssignedClients(assignments, advisorCall.advisorId) = advisorCall.before
\* No two rows of symbol_mappings have the same ibkr_symbol.
UniqueSymbols ==
    \A i, j \in 1..Len(mappings) :
        mappings[i].ibkr_symbol = mappings[j].ibkr_symbol => i = j

\* C29: no two mappings have the same ibkr_symbol, whatever calls of createMapping
\* and updateMapping were made.
C29_IbkrSymbolsUnique == UniqueSymbols
\* checked={selectedTransactions.size === transactions.length} of the select-all
\* checkbox.
SelectAllChecked == Cardinality(selected) = Cardinality(displayed)

\* C30: the selected ids are ids of displayed rows; 'Delete Selected' passed to
\* onDelete only ids that were displayed; the select-all checkbox is checked exactly
\* when every displayed row is selected.
C30_SelectionWithinDisplayed ==
    /\ selected \subseteq displayed
    /\ passed.bulk => passed.ids \subseteq passed.displayed
    /\ SelectAllChecked <=> displayed \subseteq selected
====
